---- MODULE Spec2Model ----
(***************************************************************************)
(* HowlX Atmos sensor node (src/code.py): one wake cycle reads the         *)
(* environmental sensor and the MAX17048 fuel gauge, infers the charge     *)
(* state from the retained sleep memory, posts to Adafruit IO and          *)
(* InfluxDB through with_retry, persists the battery reading and goes to   *)
(* deep sleep.                                                             *)
(*                                                                         *)
(* Numbers are binary fixed point, so that the float arithmetic of the     *)
(* code is exact on every value of the model: a percentage p is the        *)
(* integer p * PQ, a voltage v is the integer v * VQ, a delay is in ms.    *)
(***************************************************************************)
EXTENDS Integers, Sequences, FiniteSets, TLC

VARIABLES
    run,             \* number of the current wake cycle since power-up
    pc,              \* position of the script
    cfg,             \* settings.toml flags and board facilities of this device
    sensor_type,     \* "BME680" | "BME280" | "SHT3x" | None
    usb,             \* result of usb_present(): "True" | "False" | None
    vbat,            \* averaged cell voltage
    bpct,            \* averaged, clamped cell percent
    kicks,           \* quick_start pulses issued in this run
    prev,            \* <<prev_pct, prev_v>> read from sleep memory, each optional
    charging_state,  \* result of infer_state in this run
    mem,             \* alarm.sleep_memory[:8], as the two packed floats
    rt,              \* the activation of with_retry, if any
    log,             \* what this run did so far, in order
    inf,             \* SpecInfer: one call of infer_state, inputs and result
    wdt,             \* ms the script has slept since the watchdog was last fed
    fs,              \* the activation of find_env_sensor, if any
    calc             \* SpecOffsets, SpecHelpers: readings, offsets and payload

vars == <<run, pc, cfg, sensor_type, usb, vbat, bpct, kicks,
          prev, charging_state, mem, rt, log, inf, wdt, fs, calc>>

\* Python's None, True and False where a value is one of the three.
None == "None"

PyTrue == "True"

PyFalse == "False"

\* An optional float: None is <<>>, the float x is <<x>>.
NoneF == <<>>

Some(x) == <<x>>

\* Fixed-point units per percentage point and per volt.
PQ == 2^10

VQ == 2^12

\* ------------------------------------------------------------------ bounds
\* with_retry is explored for tries in 0..MaxRetryTries.
MaxRetryTries == 5
\* Wake cycles explored after power-up.
MaxRuns == 2
\* infer_state is explored on GridSteps grid points below each threshold.
GridSteps == 4

\* --------------------------------------------------------------- constants
\* with_retry(fn, tries=4, base_delay=0.5, label="")
DefaultTries == 4
DefaultBaseDelay == 500
\* setup_watchdog(15.0)
WdtTimeout == 15000
\* find_env_sensor(i2c_obj, tries=8, settle_s=0.25)
BootTries == 8
SettleMs == 250
\* while not i2c_obj.try_lock(): feed_wdt(); time.sleep(0.01)
LockSpinMs == 10
\* time.sleep(2) of the sensor wait loop and of the top-level handler
RetrySleepMs == 2000
\* SLEEP_SECONDS = 300
SleepMs == 300000

\* ------------------------------------------------------------ event log
Ev(kind, label, n, val) == [ev |-> kind, label |-> label, n |-> n, val |-> val]

\* feed_wdt()
Feed == Ev("feed", "", 0, None)

\* fn() returned val on this attempt.
CallOk(label, attempt, val) == Ev("call_ok", label, attempt, val)

\* fn() raised an Exception on this attempt.
CallFail(label, attempt) == Ev("call_fail", label, attempt, None)

\* time.sleep(ms / 1000)
Sleep(ms) == Ev("sleep", "", ms, None)

\* with_retry gave up on the operation after tries attempts.
Raise(label, tries) == Ev("raise", label, tries, None)

\* alarm.sleep_memory[:8] was read / assigned (where: "early" or "final").
MemRead == Ev("mem_read", "", 0, None)

MemWrite(where) == Ev("mem_write", where, 0, None)

\* with_retry returned to the script: all the run keeps of the activation.
Returned(label) == Ev("returned", label, 0, None)

\* Gas averaging, offsets and the derived metrics are done.
Metrics == Ev("metrics", "", 0, None)

\* The fuel gauge was read; first_pct is the first average of the percent.
FuelGauge(first_pct) == Ev("fuel_gauge", "", first_pct, None)

\* An operation outside with_retry raised.
Failed(op) == Ev("error", op, 0, None)

\* The payload of a sink was built; pct is the battery percent put into it.
PayloadBuilt(label, pct) == Ev("payload", label, pct, None)

\* The top-level handler read supervisor.runtime.usb_connected.
Handler(connected) == Ev("usb_connected", "", 0, connected)

IsCall(e) == e.ev \in {"call_ok", "call_fail"}

\* Number of invocations of the operation labelled l recorded in log.
Calls(l) == Cardinality({i \in DOMAIN log : IsCall(log[i]) /\ log[i].label = l})

\* ------------------------------------------------------------- with_retry
\* No activation of with_retry.
IdleFrame ==
    [st |-> "idle", label |-> "", tries |-> 0, base |-> 0, delay |-> 0,
     attempt |-> 0, result |-> None, exc |-> <<>>]

\* delay = base_delay; the loop variable is about to take its first value.
NewFrame(label, tries, base_delay) ==
    [st |-> "running", label |-> label, tries |-> tries, base |-> base_delay,
     delay |-> base_delay, attempt |-> 1, result |-> None, exc |-> <<>>]

\* Mutant: the loop runs once more than tries.
LoopContinuesOffByOne(attempt, tries) == attempt <= tries + 1

\* for attempt in range(1, tries + 1)
LoopContinues(attempt, tries) == attempt <= tries

\* Mutant: the feed is hoisted out of the loop, before the first attempt only.
AttemptEventsFeedOnce(label, attempt, delay, ok, value) ==
    (IF attempt = 1 THEN <<Feed>> ELSE <<>>) \o
    (IF ok THEN <<CallOk(label, attempt, value)>>
     ELSE <<CallFail(label, attempt), Sleep(delay)>>)

\* One iteration: feed_wdt(); fn(); and on an Exception the sleep(delay).
AttemptEvents(label, attempt, delay, ok, value) ==
    IF ok THEN <<Feed, CallOk(label, attempt, value)>>
    ELSE <<Feed, CallFail(label, attempt), Sleep(delay)>>

\* Mutant: fn() is called and its value dropped (a bare return).
AttemptFrameDropsValue(f, ok, value) ==
    IF ok THEN [f EXCEPT !.st = "returned"]
    ELSE [f EXCEPT !.delay = 2 * f.delay, !.attempt = f.attempt + 1]

\* Mutant: the delay grows by base_delay instead of doubling.
AttemptFrameLinearDelay(f, ok, value) ==
    IF ok THEN [f EXCEPT !.st = "returned", !.result = value]
    ELSE [f EXCEPT !.delay = f.delay + f.base, !.attempt = f.attempt + 1]

\* return fn()   /   except Exception: ...; time.sleep(delay); delay *= 2
AttemptFrame(f, ok, value) ==
    IF ok THEN [f EXCEPT !.st = "returned", !.result = value]
    ELSE [f EXCEPT !.delay = 2 * f.delay, !.attempt = f.attempt + 1]

\* raise RuntimeError(f"{label} failed after {tries} tries")
RuntimeErrorOf(label, tries) == <<label, tries>>

\* What the operation with this label returns when it succeeds.
ReturnValues(label) ==
    CASE label = "Wi-Fi connect" -> {"True"}
      [] label = "Adafruit IO POST" -> {"200"}
      [] label = "Influx write" -> {"200", "204"}
      [] OTHER -> {"reading"}

\* Mutant: with_retry does not feed; only its sleeps count.
UnfedAfterAttemptNoFeed(unfed, ok, delay) == IF ok THEN unfed ELSE unfed + delay

\* The time slept since the last feed once an attempt is over: feed_wdt()
\* opens the attempt, and a failed one sleeps delay.
UnfedAfterAttempt(unfed, ok, delay) == IF ok THEN 0 ELSE delay

\* One pass of the loop body of with_retry.
RetryAttempt ==
    /\ rt.st = "running"
    /\ LoopContinues(rt.attempt, rt.tries)
    /\ \E ok \in BOOLEAN : \E value \in ReturnValues(rt.label) :
          /\ rt' = AttemptFrame(rt, ok, value)
          /\ log' = log \o AttemptEvents(rt.label, rt.attempt, rt.delay, ok, value)
          /\ wdt' = UnfedAfterAttempt(wdt, ok, rt.delay)
    /\ UNCHANGED <<run, pc, cfg, sensor_type, usb, vbat, bpct,
                   kicks, prev, charging_state, mem, inf, fs, calc>>

\* The loop is over without a return: the labelled failure.
RetryExhaust ==
    /\ rt.st = "running"
    /\ ~LoopContinues(rt.attempt, rt.tries)
    /\ rt' = [rt EXCEPT !.st = "raised",
                        !.exc = RuntimeErrorOf(rt.label, rt.tries)]
    /\ log' = Append(log, Raise(rt.label, rt.tries))
    /\ UNCHANGED <<run, pc, cfg, sensor_type, usb, vbat, bpct,
                   kicks, prev, charging_state, mem, inf, wdt, fs, calc>>

\* The log once an activation of with_retry is over: its feeds, calls and
\* sleeps are dropped and its outcome stays (the Raise event is one already).
Over(l, f) ==
    SelectSeq(l, LAMBDA e : e.ev \notin {"feed", "call_ok", "call_fail", "sleep"})
        \o (IF f.st = "returned" THEN <<Returned(f.label)>> ELSE <<>>)

\* ------------------------------------------------------ idle activations
\* A bus: the addresses a scan sees, and the (kind, address) pairs whose
\* driver constructor succeeds.
Bus(seen, ok) == [seen |-> seen, ok |-> ok]

\* No activation of find_env_sensor.
IdleProbe ==
    [st |-> "idle", tries |-> 0, attempt |-> 0, scans |-> 0,
     bus |-> Bus({}, {}), kind |-> None, made |-> <<>>, locked |-> FALSE]

\* for attempt in range(1, tries + 1): about to take its first value.
NewProbe(tries) ==
    [st |-> "running", tries |-> tries, attempt |-> 1, scans |-> 0,
     bus |-> Bus({}, {}), kind |-> None, made |-> <<>>, locked |-> FALSE]

\* No offsets computation under way.
NoCalc == [st |-> "none"]

\* -------------------------------------------------- with_retry on its own
NoCfg == [aio_enable |-> FALSE, influx_enable |-> FALSE, alarm_ok |-> FALSE]

NoInf == [usb |-> None, v |-> 0, p |-> 0, pp |-> NoneF, pv |-> NoneF, out |-> None]

RetryLabels == {"BME280 read", "Influx write"}

RetryBaseDelays == {DefaultBaseDelay, DefaultBaseDelay \div 2}

InitRetry ==
    /\ run = 0
    /\ pc = "with_retry"
    /\ cfg = NoCfg
    /\ sensor_type = None
    /\ usb = None
    /\ vbat = 0
    /\ bpct = 0
    /\ kicks = 0
    /\ prev = <<NoneF, NoneF>>
    /\ charging_state = None
    /\ mem = <<0, 0>>
    /\ inf = NoInf
    /\ log = <<>>
    /\ wdt = 0
    /\ fs = IdleProbe
    /\ calc = NoCalc
    /\ \E l \in RetryLabels : \E t \in 0..MaxRetryTries : \E b \in RetryBaseDelays :
          rt = NewFrame(l, t, b)

NextRetry == RetryAttempt \/ RetryExhaust

SpecRetry == InitRetry /\ [][NextRetry]_vars

\* ------------------------------------------------------------- infer_state
\* v_now >= near_full_v, near_full_v = 4.18
near_full_v(v_now) == v_now * 100 >= 418 * VQ

\* Mutant: a strict comparison with near_full_p.
near_full_p_strict(p_now) == p_now > 99 * PQ

\* p_now >= near_full_p, near_full_p = 99.0
near_full_p(p_now) == p_now >= 99 * PQ

\* Mutant: the 0.05 threshold of the v1.0 script.
rising_pct_v10(p_now, p_prev) == p_prev # NoneF /\ (p_now - p_prev[1]) * 20 > PQ

\* rising_pct = (p_prev is not None) and ((p_now - p_prev) > 0.10)
rising_pct(p_now, p_prev) == p_prev # NoneF /\ (p_now - p_prev[1]) * 10 > PQ

\* rising_v = (v_prev is not None) and ((v_now - v_prev) > 0.008)
rising_v(v_now, v_prev) == v_prev # NoneF /\ (v_now - v_prev[1]) * 1000 > 8 * VQ

\* Mutant: charging needs both the percent and the voltage to rise.
infer_state_both_rising(usb_present_flag, v_now, p_now, p_prev, v_prev) ==
    IF usb_present_flag = PyTrue THEN
        IF near_full_v(v_now) \/ near_full_p(p_now) THEN "charged"
        ELSE IF rising_pct(p_now, p_prev) /\ rising_v(v_now, v_prev) THEN "charging"
        ELSE "plugged"
    ELSE IF usb_present_flag = PyFalse THEN "discharging"
    ELSE IF near_full_v(v_now) \/ near_full_p(p_now) THEN "charged"
    ELSE IF rising_pct(p_now, p_prev) /\ rising_v(v_now, v_prev) THEN "charging"
    ELSE "discharging"

\* Mutant: the USB-unknown branch of the v1.0 script, with no near-full test.
infer_state_v10(usb_present_flag, v_now, p_now, p_prev, v_prev) ==
    IF usb_present_flag = PyTrue THEN
        IF near_full_v(v_now) \/ near_full_p(p_now) THEN "charged"
        ELSE IF rising_pct(p_now, p_prev) \/ rising_v(v_now, v_prev) THEN "charging"
        ELSE "plugged"
    ELSE IF usb_present_flag = PyFalse THEN "discharging"
    ELSE IF rising_pct(p_now, p_prev) \/ rising_v(v_now, v_prev) THEN "charging"
    ELSE "discharging"

infer_state(usb_present_flag, v_now, p_now, p_prev, v_prev) ==
    IF usb_present_flag = PyTrue THEN
        IF near_full_v(v_now) \/ near_full_p(p_now) THEN "charged"
        ELSE IF rising_pct(p_now, p_prev) \/ rising_v(v_now, v_prev) THEN "charging"
        ELSE "plugged"
    ELSE IF usb_present_flag = PyFalse THEN "discharging"
    ELSE IF near_full_v(v_now) \/ near_full_p(p_now) THEN "charged"
    ELSE IF rising_pct(p_now, p_prev) \/ rising_v(v_now, v_prev) THEN "charging"
    ELSE "discharging"

\* -------------------------------------------------- infer_state on its own
\* The smallest fixed-point voltage that is >= 4.18 V.
VFull == (418 * VQ + 99) \div 100

\* Grid spacings: two voltage steps are below 8 mV and three above it; one
\* percent step is below 0.10 and two are above it.
VStep == VQ \div 256

PStep == PQ \div 16

VGrid == {VFull + i * VStep : i \in (0 - GridSteps)..1}

PGrid == {99 * PQ + i * PStep : i \in (0 - GridSteps)..1}

UsbFlags == {PyTrue, PyFalse, None}

Optional(S) == {NoneF} \cup {Some(x) : x \in S}

InitInfer ==
    /\ run = 0
    /\ pc = "infer_state"
    /\ cfg = NoCfg
    /\ sensor_type = None
    /\ usb = None
    /\ vbat = 0
    /\ bpct = 0
    /\ kicks = 0
    /\ prev = <<NoneF, NoneF>>
    /\ charging_state = None
    /\ mem = <<0, 0>>
    /\ rt = IdleFrame
    /\ log = <<>>
    /\ wdt = 0
    /\ fs = IdleProbe
    /\ calc = NoCalc
    /\ \E u \in UsbFlags : \E v \in VGrid : \E p \in PGrid :
       \E pp \in Optional(PGrid) : \E pv \in Optional(VGrid) :
          inf = [usb |-> u, v |-> v, p |-> p, pp |-> pp, pv |-> pv, out |-> None]

\* charging_state = infer_state(usb, vbat, bpct, prev_pct, prev_v)
ApplyInfer ==
    /\ pc = "infer_state"
    /\ inf.out = None
    /\ inf' = [inf EXCEPT !.out = infer_state(inf.usb, inf.v, inf.p, inf.pp, inf.pv)]
    /\ UNCHANGED <<run, pc, cfg, sensor_type, usb, vbat, bpct,
                   kicks, prev, charging_state, mem, rt, log, wdt, fs, calc>>

NextInfer == ApplyInfer

SpecInfer == InitInfer /\ [][NextInfer]_vars

\* ------------------------------------------------------- sensor bring-up
SensorKinds == {"BME680", "BME280", "SHT3x"}

Buses ==
    { Bus({}, {}),
      Bus({54}, {}),
      Bus({119}, {}),
      Bus({68}, {<<"SHT3x", 68>>}),
      Bus({118}, {<<"BME280", 118>>}),
      Bus({119}, {<<"BME680", 119>>, <<"BME280", 119>>}),
      Bus({54, 68, 118}, {<<"BME280", 118>>, <<"SHT3x", 68>>}),
      Bus({54, 69}, {<<"BME280", 118>>, <<"SHT3x", 69>>}) }

\* The candidates in the order they are tried: BME680 at 0x76, 0x77, then
\* BME280 at 0x76, 0x77, then SHT3x at 0x44, 0x45.
Candidates ==
    << <<"BME680", 118>>, <<"BME680", 119>>, <<"BME280", 118>>,
       <<"BME280", 119>>, <<"SHT3x", 68>>, <<"SHT3x", 69>> >>

\* Mutant: the constructors are tried without looking at the scan.
ProbeOnceUnscanned(bus) ==
    LET hits == {i \in DOMAIN Candidates : Candidates[i] \in bus.ok}
    IN  IF hits = {} THEN None
        ELSE Candidates[CHOOSE i \in hits : \A j \in hits : i <= j][1]

\* One scan of find_env_sensor: the first candidate that is seen and whose
\* constructor succeeds, or None.
ProbeOnce(bus) ==
    LET hits == {i \in DOMAIN Candidates :
                    Candidates[i][2] \in bus.seen /\ Candidates[i] \in bus.ok}
    IN  IF hits = {} THEN None
        ELSE Candidates[CHOOSE i \in hits : \A j \in hits : i <= j][1]

\* The constructor calls of one scan, in order: every candidate whose
\* address is in the scan, up to and including the first that succeeds.
Constructed(bus) ==
    LET pos(c) == CHOOSE i \in DOMAIN Candidates : Candidates[i] = c
        hits == {i \in DOMAIN Candidates :
                    Candidates[i][2] \in bus.seen /\ Candidates[i] \in bus.ok}
        last == IF hits = {} THEN Len(Candidates)
                ELSE CHOOSE i \in hits : \A j \in hits : i <= j
    IN  SelectSeq(Candidates, LAMBDA c : c[2] \in bus.seen /\ pos(c) <= last)

\* Mutant: unlock() follows the scan without a finally, so a raising scan
\* leaves the lock held.
LockAfterScanNoFinally(raised) == raised

\* try: seen = i2c_obj.scan() or []  finally: i2c_obj.unlock()
\* The lock once the scan is over, whether it returned or raised. Nothing
\* after it touches the lock until the next try_lock(), so this is also the
\* lock as the constructors of the pass find it.
LockAfterScan(raised) == FALSE

\* try_lock() said no: feed_wdt(); time.sleep(0.01).
BusLockWait ==
    /\ fs.st = "running"
    /\ fs.attempt <= fs.tries
    /\ ~fs.locked
    /\ wdt' = LockSpinMs
    /\ UNCHANGED <<run, pc, cfg, sensor_type, usb, vbat, bpct, kicks, prev,
                   charging_state, mem, rt, log, inf, fs, calc>>

\* try_lock() said yes: the while loop is over with the lock held.
ProbeLock ==
    /\ fs.st = "running"
    /\ fs.attempt <= fs.tries
    /\ ~fs.locked
    /\ fs' = [fs EXCEPT !.locked = TRUE]
    /\ UNCHANGED <<run, pc, cfg, sensor_type, usb, vbat, bpct, kicks, prev,
                   charging_state, mem, rt, log, inf, wdt, calc>>

\* i2c_obj.scan() raised: the finally clause runs and the exception leaves
\* find_env_sensor, which has no except around the scan.
ProbeScanRaise ==
    /\ fs.st = "running"
    /\ fs.attempt <= fs.tries
    /\ fs.locked
    /\ fs' = [fs EXCEPT !.st = "raised",
                        !.scans = fs.scans + 1,
                        !.locked = LockAfterScan(TRUE)]
    /\ UNCHANGED <<run, pc, cfg, sensor_type, usb, vbat, bpct, kicks, prev,
                   charging_state, mem, rt, log, inf, wdt, calc>>

\* One pass of the loop of find_env_sensor: scan, the constructors in
\* order, return on the first success, else sleep(settle_s).
ProbeScan ==
    /\ fs.st = "running"
    /\ fs.attempt <= fs.tries
    /\ fs.locked
    /\ \E bus \in Buses :
          LET kind == ProbeOnce(bus)
          IN  /\ fs' = [fs EXCEPT
                          !.st = IF kind = None THEN "running" ELSE "found",
                          !.attempt = IF kind = None THEN fs.attempt + 1
                                      ELSE fs.attempt,
                          !.scans = fs.scans + 1,
                          !.bus = bus,
                          !.kind = kind,
                          !.made = Constructed(bus),
                          !.locked = LockAfterScan(FALSE)]
              /\ wdt' = IF kind = None THEN wdt + SettleMs ELSE wdt
    /\ UNCHANGED <<run, pc, cfg, sensor_type, usb, vbat, bpct, kicks, prev,
                   charging_state, mem, rt, log, inf, calc>>

\* The loop is over without a return: return None, None, addr, seen.
ProbeGiveUp ==
    /\ fs.st = "running"
    /\ fs.attempt > fs.tries
    /\ fs' = [fs EXCEPT !.st = "not_found"]
    /\ UNCHANGED <<run, pc, cfg, sensor_type, usb, vbat, bpct, kicks, prev,
                   charging_state, mem, rt, log, inf, wdt, calc>>

\* label=f"{sensor_type} read"
ReadLabel(kind) ==
    CASE kind = "BME680" -> "BME680 read"
      [] kind = "BME280" -> "BME280 read"
      [] OTHER -> "SHT3x read"

\* ----------------------------------------------------------- fuel gauge
\* fg.cell_voltage and fg.cell_percent as the gauge may report them.
VSamples == {15 * (VQ \div 4), 17 * (VQ \div 4)}

PSamples == {(0 - 2) * PQ, 100 * PQ, 103 * PQ}

\* (a + b) / 2.0
Avg2(a, b) == (a + b) \div 2

\* Mutant: the upper limit lost a digit (1.5 for 101.5).
OutOfBandLowLimit(p) == 2 * p > 3 * PQ \/ 2 * p < 0 - PQ

\* bpct > 101.5 or bpct < -0.5
OutOfBand(p) == 2 * p > 203 * PQ \/ 2 * p < 0 - PQ

\* Mutant: only the upper rail is applied.
ClampUpperOnly(p) == IF p > 100 * PQ THEN 100 * PQ ELSE p

\* max(0.0, min(100.0, bpct))
Clamp(p) == IF p < 0 THEN 0 ELSE IF p > 100 * PQ THEN 100 * PQ ELSE p

\* usb_present(): supervisor.runtime.usb_connected when it can be read, else
\* what the VBUS fallbacks give (True, False, or None when all fail).
usb_present(connected, fallback) ==
    IF connected # "raise" THEN connected ELSE fallback

\* --------------------------------------------------------- sleep memory
\* A float32: the value rounded to 24 significant bits, ties to even.
RECURSIVE Ulp(_, _)
Ulp(a, s) == IF a \div s < 2^24 THEN s ELSE Ulp(a, 2 * s)

F32(x) ==
    LET a == IF x < 0 THEN 0 - x ELSE x
        s == Ulp(a, 1)
        q == a \div s
        r == a % s
        up == 2 * r > s \/ (2 * r = s /\ q % 2 = 1)
        m == (IF up THEN q + 1 ELSE q) * s
    IN  IF x < 0 THEN 0 - m ELSE m

\* struct.pack("ff", float(bpct), float(vbat))
Pack(p, v) == <<F32(p), F32(v)>>

\* Mutant: the two floats are unpacked in the other order.
UnpackSwapped(m) == <<Some(m[2]), Some(m[1])>>

\* prev_pct, prev_v = struct.unpack("ff", bytes(mem[:8]))
Unpack(m) == <<Some(m[1]), Some(m[2])>>

\* Load previous values: None, None unless the alarm module imports.
LoadPrev(alarm_ok, m) == IF alarm_ok THEN Unpack(m) ELSE <<NoneF, NoneF>>

\* Mutant: no write before the network is brought up.
PersistEarlySkipped(alarm_ok, m, p, v) == [mem |-> m, events |-> <<>>]

\* Persist latest values for next wake (before Wi-Fi).
PersistEarly(alarm_ok, m, p, v) ==
    IF alarm_ok THEN [mem |-> Pack(p, v), events |-> <<MemWrite("early")>>]
    ELSE [mem |-> m, events |-> <<>>]

\* Mutant: the end-of-run write is missing.
PersistFinalSkipped(alarm_ok, m, p, v) == [mem |-> m, events |-> <<>>]

\* Persist latest battery values for next wake (end of run).
PersistFinal(alarm_ok, m, p, v) ==
    IF alarm_ok THEN [mem |-> Pack(p, v), events |-> <<MemWrite("final")>>]
    ELSE [mem |-> m, events |-> <<>>]

\* --------------------------------------------------------- the wake cycle
\* supervisor.runtime.usb_connected when it is read: a bool, or it raises.
UsbConnectedValues == {PyTrue, PyFalse, "raise"}

Configs == [aio_enable : BOOLEAN, influx_enable : BOOLEAN, alarm_ok : BOOLEAN]

\* The script's variables as a run finds them.
FreshRun ==
    /\ pc' = "boot"
    /\ sensor_type' = None
    /\ usb' = None
    /\ vbat' = 0
    /\ bpct' = 0
    /\ kicks' = 0
    /\ prev' = <<NoneF, NoneF>>
    /\ charging_state' = None
    /\ rt' = IdleFrame
    /\ log' = <<>>
    /\ wdt' = 0
    /\ fs' = IdleProbe

\* Power-up: sleep memory is zeroed, the script starts.
Init ==
    /\ run = 1
    /\ pc = "boot"
    /\ cfg \in Configs
    /\ sensor_type = None
    /\ usb = None
    /\ vbat = 0
    /\ bpct = 0
    /\ kicks = 0
    /\ prev = <<NoneF, NoneF>>
    /\ charging_state = None
    /\ mem = <<0, 0>>
    /\ rt = IdleFrame
    /\ log = <<>>
    /\ inf = NoInf
    /\ wdt = 0
    /\ fs = IdleProbe
    /\ calc = NoCalc

\* setup_watchdog(15.0), and find_env_sensor(i2c) is called.
Boot ==
    /\ pc = "boot"
    /\ pc' = "boot_probe"
    /\ wdt' = 0
    /\ fs' = NewProbe(BootTries)
    /\ UNCHANGED <<run, cfg, sensor_type, usb, vbat, bpct, kicks, prev,
                   charging_state, mem, rt, log, inf, calc>>

\* find_env_sensor returned; the boot printout and the corrected preview
\* (which read the sensor when there is one) went through.
BootDone ==
    /\ pc = "boot_probe"
    /\ fs.st \in {"found", "not_found"}
    /\ sensor_type' = fs.kind
    /\ pc' = "main"
    /\ fs' = IdleProbe
    /\ UNCHANGED <<run, cfg, usb, vbat, bpct, kicks, prev,
                   charging_state, mem, rt, log, inf, wdt, calc>>

\* A sensor read of the boot printout or of the preview raised: these stand
\* before the try, so the script ends with the traceback.
PreviewRaise ==
    /\ pc = "boot_probe"
    /\ fs.st = "found"
    /\ sensor_type' = fs.kind
    /\ pc' = "crashed"
    /\ fs' = IdleProbe
    /\ UNCHANGED <<run, cfg, usb, vbat, bpct, kicks, prev,
                   charging_state, mem, rt, log, inf, wdt, calc>>

\* The scan of the boot probe raised: the call stands before the try, so
\* the script ends with the traceback.
BootScanRaise ==
    /\ pc = "boot_probe"
    /\ fs.st = "raised"
    /\ pc' = "crashed"
    /\ fs' = IdleProbe
    /\ UNCHANGED <<run, cfg, sensor_type, usb, vbat, bpct, kicks, prev,
                   charging_state, mem, rt, log, inf, wdt, calc>>

\* while not _sensor_boot: find_env_sensor(i2c, tries=1) is called.
WaitSensor ==
    /\ pc = "main"
    /\ sensor_type = None
    /\ pc' = "wait_probe"
    /\ fs' = NewProbe(1)
    /\ UNCHANGED <<run, cfg, sensor_type, usb, vbat, bpct, kicks, prev,
                   charging_state, mem, rt, log, inf, wdt, calc>>

\* It returned: when nothing was found, time.sleep(2); feed_wdt() and the
\* loop goes round again.
WaitSensorDone ==
    /\ pc = "wait_probe"
    /\ fs.st \in {"found", "not_found"}
    /\ sensor_type' = fs.kind
    /\ wdt' = IF fs.st = "found" THEN wdt ELSE 0
    /\ pc' = "main"
    /\ fs' = IdleProbe
    /\ UNCHANGED <<run, cfg, usb, vbat, bpct, kicks, prev,
                   charging_state, mem, rt, log, inf, calc>>

\* The scan of a probe of the wait loop raised: the loop is inside the try,
\* so the top-level except takes it.
WaitScanRaise ==
    /\ pc = "wait_probe"
    /\ fs.st = "raised"
    /\ pc' = "except"
    /\ log' = Append(log, Failed("I2C scan"))
    /\ fs' = IdleProbe
    /\ UNCHANGED <<run, cfg, sensor_type, usb, vbat, bpct, kicks, prev,
                   charging_state, mem, rt, inf, wdt, calc>>

\* with_retry(_read_env_once, label=f"{sensor_type} read")
ReadEnvStart ==
    /\ pc = "main"
    /\ sensor_type # None
    /\ pc' = "read_env"
    /\ rt' = NewFrame(ReadLabel(sensor_type), DefaultTries, DefaultBaseDelay)
    /\ UNCHANGED <<run, cfg, sensor_type, usb, vbat, bpct, kicks,
                   prev, charging_state, mem, log, inf, wdt, fs, calc>>

\* Mutant: the fuel gauge block is moved behind the network bring-up, so the
\* metrics are followed by charge inference and Wi-Fi.
StepAfterGaugeMoved(step) ==
    CASE step = "read_env" -> "metrics"
      [] step = "metrics" -> "charge"
      [] step = "battery" -> "charge"

\* The order of the blocks between the sensor read and Wi-Fi: unified read,
\* then gas averaging and metrics, then the battery block, then the load of
\* the previous values with charge inference.
StepAfter(step) ==
    CASE step = "read_env" -> "metrics"
      [] step = "metrics" -> "battery"
      [] step = "battery" -> "charge"

\* Mutant: a failed read is swallowed and the script goes on without one.
ReadingObtainedOrNot(f) == f.st \in {"returned", "raised"}

\* The script gets past line 426 only with the tuple with_retry returned.
ReadingObtained(f) == f.st = "returned"

\* temp_c, rh, pressure_hpa, alt_m, gas_ohms = <the reading>
ReadEnvDone ==
    /\ pc = "read_env"
    /\ ReadingObtained(rt)
    /\ pc' = StepAfter("read_env")
    /\ rt' = IdleFrame
    /\ log' = Over(log, rt)
    /\ UNCHANGED <<run, cfg, sensor_type, usb, vbat, bpct, kicks,
                   prev, charging_state, mem, inf, wdt, fs, calc>>

\* Gas averaging, offsets, psychrometrics and the printout went through.
MetricsOk ==
    /\ pc = "metrics"
    /\ pc' = StepAfter("metrics")
    /\ log' = Append(log, Metrics)
    /\ wdt' = IF sensor_type = "BME680" THEN 0 ELSE wdt
    /\ UNCHANGED <<run, cfg, sensor_type, usb, vbat, bpct, kicks,
                   prev, charging_state, mem, rt, inf, fs, calc>>

\* A metric raised (math.log of a humidity <= 0 in dewpoint_c).
MetricsRaise ==
    /\ pc = "metrics"
    /\ pc' = "except"
    /\ log' = Append(log, Failed("metrics"))
    /\ wdt' = IF sensor_type = "BME680" THEN 0 ELSE wdt
    /\ UNCHANGED <<run, cfg, sensor_type, usb, vbat, bpct, kicks,
                   prev, charging_state, mem, rt, inf, fs, calc>>

\* MAX17048(i2c) or one of the first reads raised: nothing catches it here.
BatteryRaise ==
    /\ pc = "battery"
    /\ pc' = "except"
    /\ log' = Append(log, Failed("MAX17048"))
    /\ \E slept \in {0, 100, 200} : wdt' = wdt + slept
    /\ UNCHANGED <<run, cfg, sensor_type, usb, vbat, bpct, kicks,
                   prev, charging_state, mem, rt, inf, fs, calc>>

\* What the quick_start kick gives: the re-read averages, or nothing when
\* quick_start or a re-read raises (caught, the first averages stay); the
\* last component is the time slept on the way.
KickOutcomes ==
    {<<"ok", Avg2(w1, w2), Avg2(q1, q2), 350>> :
        w1 \in VSamples, w2 \in VSamples, q1 \in PSamples, q2 \in PSamples}
    \cup {<<"failed", 0, 0, slept>> : slept \in {0, 250, 350}}

\* Two samples averaged, usb_present(), the quick_start kick when the
\* percent is out of band, then the clamp.
BatteryRead ==
    /\ pc = "battery"
    /\ \E v1 \in VSamples, v2 \in VSamples, p1 \in PSamples, p2 \in PSamples :
          LET first_v == Avg2(v1, v2)
              first_p == Avg2(p1, p2)
          IN  IF OutOfBand(first_p)
              THEN \E k \in KickOutcomes :
                      /\ vbat' = IF k[1] = "ok" THEN k[2] ELSE first_v
                      /\ bpct' = Clamp(IF k[1] = "ok" THEN k[3] ELSE first_p)
                      /\ kicks' = kicks + 1
                      /\ wdt' = wdt + 200 + k[4]
                      /\ log' = Append(log, FuelGauge(first_p))
              ELSE /\ vbat' = first_v
                   /\ bpct' = Clamp(first_p)
                   /\ kicks' = kicks
                   /\ wdt' = wdt + 200
                   /\ log' = Append(log, FuelGauge(first_p))
    /\ \E connected \in UsbConnectedValues, fallback \in UsbFlags :
          usb' = usb_present(connected, fallback)
    /\ pc' = StepAfter("battery")
    /\ UNCHANGED <<run, cfg, sensor_type, prev, charging_state,
                   mem, rt, inf, fs, calc>>

\* Load previous values, infer_state, persist for the next wake, and start
\* with_retry(_wifi_connect, label="Wi-Fi connect").
ChargeInfer ==
    /\ pc = "charge"
    /\ LET loaded == LoadPrev(cfg.alarm_ok, mem)
           w == PersistEarly(cfg.alarm_ok, mem, bpct, vbat)
       IN  /\ prev' = loaded
           /\ charging_state' = infer_state(usb, vbat, bpct, loaded[1], loaded[2])
           /\ mem' = w.mem
           /\ log' = log \o (IF cfg.alarm_ok THEN <<MemRead>> ELSE <<>>) \o w.events
    /\ pc' = "wifi"
    /\ rt' = NewFrame("Wi-Fi connect", DefaultTries, DefaultBaseDelay)
    /\ UNCHANGED <<run, cfg, sensor_type, usb, vbat, bpct, kicks,
                   inf, wdt, fs, calc>>

\* Wi-Fi is up: socket pool, requests session, offsets fallback gate.
WifiDone ==
    /\ pc = "wifi"
    /\ rt.st = "returned"
    /\ pc' = "dispatch_aio"
    /\ rt' = IdleFrame
    /\ log' = Over(log, rt)
    /\ UNCHANGED <<run, cfg, sensor_type, usb, vbat, bpct, kicks,
                   prev, charging_state, mem, inf, wdt, fs, calc>>

\* if AIO_ENABLE: ... with_retry(_post_payload, label="Adafruit IO POST")
AioStart ==
    /\ pc = "dispatch_aio"
    /\ cfg.aio_enable
    /\ pc' = "aio"
    /\ rt' = NewFrame("Adafruit IO POST", DefaultTries, DefaultBaseDelay)
    /\ log' = Append(log, PayloadBuilt("Adafruit IO POST", bpct))
    /\ UNCHANGED <<run, cfg, sensor_type, usb, vbat, bpct, kicks,
                   prev, charging_state, mem, inf, wdt, fs, calc>>

\* else: print("AIO disabled by settings.")
AioSkip ==
    /\ pc = "dispatch_aio"
    /\ ~cfg.aio_enable
    /\ pc' = "dispatch_influx"
    /\ UNCHANGED <<run, cfg, sensor_type, usb, vbat, bpct, kicks,
                   prev, charging_state, mem, rt, log, inf, wdt, fs, calc>>

\* The Adafruit IO POST returned.
AioDone ==
    /\ pc = "aio"
    /\ rt.st = "returned"
    /\ pc' = "dispatch_influx"
    /\ rt' = IdleFrame
    /\ log' = Over(log, rt)
    /\ UNCHANGED <<run, cfg, sensor_type, usb, vbat, bpct, kicks,
                   prev, charging_state, mem, inf, wdt, fs, calc>>

\* if INFLUX_ENABLE: try: with_retry(post_to_influx, label="Influx write")
InfluxStart ==
    /\ pc = "dispatch_influx"
    /\ cfg.influx_enable
    /\ pc' = "influx"
    /\ rt' = NewFrame("Influx write", DefaultTries, DefaultBaseDelay)
    /\ log' = Append(log, PayloadBuilt("Influx write", bpct))
    /\ UNCHANGED <<run, cfg, sensor_type, usb, vbat, bpct, kicks,
                   prev, charging_state, mem, inf, wdt, fs, calc>>

\* else: print("Influx disabled by settings.")
InfluxSkip ==
    /\ pc = "dispatch_influx"
    /\ ~cfg.influx_enable
    /\ pc' = "persist"
    /\ UNCHANGED <<run, cfg, sensor_type, usb, vbat, bpct, kicks,
                   prev, charging_state, mem, rt, log, inf, wdt, fs, calc>>

\* The Influx write returned, or raised into its own except clause.
InfluxDone ==
    /\ pc = "influx"
    /\ rt.st \in {"returned", "raised"}
    /\ pc' = "persist"
    /\ rt' = IdleFrame
    /\ log' = Over(log, rt)
    /\ UNCHANGED <<run, cfg, sensor_type, usb, vbat, bpct, kicks,
                   prev, charging_state, mem, inf, wdt, fs, calc>>

\* The end-of-run write of the battery values.
Persist ==
    /\ pc = "persist"
    /\ LET w == PersistFinal(cfg.alarm_ok, mem, bpct, vbat)
       IN  /\ mem' = w.mem
           /\ log' = log \o w.events
    /\ pc' = "sleep"
    /\ UNCHANGED <<run, cfg, sensor_type, usb, vbat, bpct, kicks,
                   prev, charging_state, rt, inf, wdt, fs, calc>>

\* A with_retry outside any inner try raised: on to the top-level except.
Escapes ==
    /\ pc \in {"read_env", "wifi", "aio"}
    /\ rt.st = "raised"
    /\ pc' = "except"
    /\ rt' = IdleFrame
    /\ log' = Over(log, rt)
    /\ UNCHANGED <<run, cfg, sensor_type, usb, vbat, bpct, kicks,
                   prev, charging_state, mem, inf, wdt, fs, calc>>

\* Mutant: the handler reloads whatever usb_connected says.
HandlerOutcomeAlwaysReload(connected) == "reloaded"

\* if not supervisor.runtime.usb_connected: sleep(2); reload()  else: raise
\* (reading usb_connected may itself raise, which surfaces as well).
HandlerOutcome(connected) == IF connected = PyFalse THEN "reloaded" ELSE "raised"

\* except Exception: soft reboot unless a USB session is attached, else raise.
TopLevelExcept ==
    /\ pc = "except"
    /\ \E connected \in UsbConnectedValues :
          /\ pc' = HandlerOutcome(connected)
          /\ wdt' = IF HandlerOutcome(connected) = "reloaded"
                    THEN wdt + RetrySleepMs ELSE wdt
          /\ log' = Append(log, Handler(connected))
    /\ UNCHANGED <<run, cfg, sensor_type, usb, vbat, bpct, kicks,
                   prev, charging_state, mem, rt, inf, fs, calc>>

\* feed_wdt() and deep sleep until the time alarm; without the alarm module
\* the fallback time.sleep(SLEEP_SECONDS), which nothing feeds.
DeepSleep ==
    /\ pc = "sleep"
    /\ pc' = IF cfg.alarm_ok THEN "asleep" ELSE "fallback"
    /\ wdt' = IF cfg.alarm_ok THEN 0 ELSE wdt + SleepMs
    /\ UNCHANGED <<run, cfg, sensor_type, usb, vbat, bpct, kicks,
                   prev, charging_state, mem, rt, log, inf, fs, calc>>

\* The armed watchdog went unfed for longer than its timeout: the board
\* resets, wherever the script is.
WatchdogReset ==
    /\ pc \notin {"wdt_reset", "ended"}
    /\ wdt > WdtTimeout
    /\ pc' = "wdt_reset"
    /\ UNCHANGED <<run, cfg, sensor_type, usb, vbat, bpct, kicks,
                   prev, charging_state, mem, rt, log, inf, wdt, fs, calc>>

\* On a board where setup_watchdog found no watchdog the fallback sleep
\* runs out and the script is over.
ScriptEnds ==
    /\ pc = "fallback"
    /\ pc' = "ended"
    /\ UNCHANGED <<run, cfg, sensor_type, usb, vbat, bpct, kicks,
                   prev, charging_state, mem, rt, log, inf, wdt, fs, calc>>

\* The alarm fires, supervisor.reload() restarts the script, or the board
\* comes back from the watchdog reset: the next run starts, and sleep memory
\* is what the last one left.
Wake ==
    /\ pc \in {"asleep", "reloaded", "wdt_reset"}
    /\ run < MaxRuns
    /\ run' = run + 1
    /\ FreshRun
    /\ UNCHANGED <<cfg, mem, inf, calc>>

Next ==
    \/ Boot
    \/ BusLockWait
    \/ ProbeLock
    \/ ProbeScan
    \/ ProbeScanRaise
    \/ ProbeGiveUp
    \/ BootDone
    \/ PreviewRaise
    \/ BootScanRaise
    \/ WaitSensor
    \/ WaitSensorDone
    \/ WaitScanRaise
    \/ ReadEnvStart
    \/ RetryAttempt
    \/ RetryExhaust
    \/ ReadEnvDone
    \/ MetricsOk
    \/ MetricsRaise
    \/ BatteryRaise
    \/ BatteryRead
    \/ ChargeInfer
    \/ WifiDone
    \/ AioStart
    \/ AioSkip
    \/ AioDone
    \/ InfluxStart
    \/ InfluxSkip
    \/ InfluxDone
    \/ Persist
    \/ Escapes
    \/ TopLevelExcept
    \/ DeepSleep
    \/ WatchdogReset
    \/ ScriptEnds
    \/ Wake

Spec == Init /\ [][Next]_vars

\* The script is one thread that is never descheduled for good: whenever a
\* step is possible, a step is taken.
SpecLive == Init /\ [][Next]_vars /\ WF_vars(Next)

\* ------------------------- readings, gas, offsets and payload on their own
\* Temperatures are in units of 0.001 C, humidities of 0.001 %RH, pressures
\* of 0.001 hPa, altitudes of 0.001 m. A gas resistance is the fraction
\* <<numerator, denominator>> of ohms, so that the average of a window is
\* exact. A derived metric is kept as the formula applied to its arguments,
\* so that two values are equal exactly when they were computed from the
\* same corrected readings.
\* SEA_LEVEL_HPA = 1013.25
SeaLevelHpa == 1013250

\* sample_gas_iaq(_sensor_boot, samples=10, delay_s=1.0)
GasWindow == 10

\* {"temp": ..., "hum": ..., "press": ...}
Offsets(t, h, p) == [temp |-> t, hum |-> h, press |-> p]

ZeroOffsets == Offsets(0, 0, 0)

OffsetKeys == {"temp", "hum", "press"}

\* A JSON value under a key: a number, or a value float() refuses (null, a
\* list, a string that is no number).
JsonNum(x) == <<"number", x>>

JsonBad == <<"not a number", 0>>

\* JSON objects with any subset of the offset keys, their values from vals.
JsonDicts(vals) == UNION {[ks -> vals] : ks \in SUBSET OffsetKeys}

\* A file or a response body: kind is "missing" (no such file), "unreadable"
\* (open or read raises), "garbage" (no JSON), "array" (JSON, but no object)
\* or "object" (the JSON object d).
Doc(kind, d) == [kind |-> kind, d |-> d]

NoDoc(kind) == Doc(kind, [k \in {} |-> JsonBad])

JsonObject(d) == Doc("object", d)

\* json.dumps(gh_offsets): the three offsets as numbers.
FileOf(o) == JsonObject([k \in OffsetKeys |-> JsonNum(o[k])])

\* d.get(key, 0.0)
DictGet(d, k) == IF k \in DOMAIN d THEN d[k] ELSE JsonNum(0)

\* json.load / json.loads and the three float(d.get(key, 0.0)): <<>> when
\* any of them raises, else the record of the three values.
ParseOffsets(doc) ==
    IF doc.kind # "object" THEN <<>>
    ELSE IF \E k \in OffsetKeys : DictGet(doc.d, k)[1] # "number" THEN <<>>
    ELSE <<Offsets(DictGet(doc.d, "temp")[2], DictGet(doc.d, "hum")[2],
                   DictGet(doc.d, "press")[2])>>

\* Mutant: a field that float() refuses is zeroed on its own.
load_offsets_per_field(file) ==
    LET f(k) == IF DictGet(file.d, k)[1] = "number" THEN DictGet(file.d, k)[2]
                ELSE 0
    IN  IF file.kind # "object" THEN ZeroOffsets
        ELSE Offsets(f("temp"), f("hum"), f("press"))

\* load_offsets(): the file's offsets; all zeros when anything in the try
\* block raises.
load_offsets(file) ==
    IF ParseOffsets(file) = <<>> THEN ZeroOffsets ELSE ParseOffsets(file)[1]

\* off.get(key, 0.0)
OffGet(off, k) == IF k \in DOMAIN off THEN off[k] ELSE 0

\* Mutant: an offset of exactly 0.01 already counts.
calibrated_flag_inclusive(off) ==
    LET abs(x) == IF x < 0 THEN 0 - x ELSE x
    IN  IF \E k \in OffsetKeys : abs(OffGet(off, k)) >= 10 THEN 1 ELSE 0

\* calibrated_flag(off): some offset is larger than 0.01 in magnitude.
calibrated_flag(off) ==
    LET abs(x) == IF x < 0 THEN 0 - x ELSE x
    IN  IF abs(OffGet(off, "temp")) > 10 \/ abs(OffGet(off, "hum")) > 10
           \/ abs(OffGet(off, "press")) > 10
        THEN 1 ELSE 0

temp_f(t_c) == <<"t_c * 9/5 + 32", t_c>>

\* dewpoint_c takes math.log(rh / 100.0), which raises for rh <= 0.
DewpointRaises(rh) == rh <= 0

dewpoint_c(t_c, rh) == <<"dewpoint_c", t_c, rh>>

wetbulb_c(t_c, rh) == <<"wetbulb_c", t_c, rh>>

humidity_ratio(t_c, rh, pressure_hpa) == <<"humidity_ratio", t_c, rh, pressure_hpa>>

enthalpy(t_c, w) == <<"enthalpy", t_c, w>>

\* (None, None)
NoAqi == [index |-> NoneF, label |-> None]

Aqi(i, label) == [index |-> Some(i), label |-> label]

\* Mutant: the top level starts above 15000 ohm.
interpret_gas_resistance_strict(gas_ohms) ==
    IF gas_ohms = NoneF THEN NoAqi
    ELSE IF gas_ohms[1] <= 0 THEN NoAqi
    ELSE IF gas_ohms[1] > 15000 * gas_ohms[2] THEN Aqi(5, "very clean")
    ELSE IF gas_ohms[1] >= 8000 * gas_ohms[2] THEN Aqi(4, "clean")
    ELSE IF gas_ohms[1] >= 3000 * gas_ohms[2] THEN Aqi(3, "light VOCs")
    ELSE IF gas_ohms[1] >= 1000 * gas_ohms[2] THEN Aqi(2, "moderate VOCs")
    ELSE Aqi(1, "high VOCs")

\* interpret_gas_resistance(gas_ohms): the index and its label.
interpret_gas_resistance(gas_ohms) ==
    IF gas_ohms = NoneF THEN NoAqi
    ELSE IF gas_ohms[1] <= 0 THEN NoAqi
    ELSE IF gas_ohms[1] >= 15000 * gas_ohms[2] THEN Aqi(5, "very clean")
    ELSE IF gas_ohms[1] >= 8000 * gas_ohms[2] THEN Aqi(4, "clean")
    ELSE IF gas_ohms[1] >= 3000 * gas_ohms[2] THEN Aqi(3, "light VOCs")
    ELSE IF gas_ohms[1] >= 1000 * gas_ohms[2] THEN Aqi(2, "moderate VOCs")
    ELSE Aqi(1, "high VOCs")

\* Mutant: the compensated metric is computed whatever the gas reading.
compute_comp_gas_unguarded(gas_ohms, rh) == <<"log(gas) + 0.04 * rh", gas_ohms, rh>>

\* compute_comp_gas(gas_ohms, rh): None without a positive gas reading.
compute_comp_gas(gas_ohms, rh) ==
    IF gas_ohms = NoneF THEN NoneF
    ELSE IF gas_ohms[1] <= 0 THEN NoneF
    ELSE <<"log(gas) + 0.04 * rh", gas_ohms, rh>>

\* What the sensor object exposes: pressure only on the BMEs, gas only on
\* the BME680, whose driver may or may not have an altitude attribute.
Devices ==
    {[sensor_type |-> "SHT3x", temperature |-> 21500, humidity |-> r,
      pressure |-> NoneF, altitude |-> NoneF, gas |-> NoneF] :
        r \in {40000, 1500}}
    \cup {[sensor_type |-> "BME280", temperature |-> 21500, humidity |-> r,
           pressure |-> Some(1000000), altitude |-> Some(a), gas |-> NoneF] :
             r \in {40000, 1500}, a \in {0, 110000}}
    \cup {[sensor_type |-> "BME680", temperature |-> 21500, humidity |-> r,
           pressure |-> Some(1000000), altitude |-> a, gas |-> Some(g)] :
             r \in {40000, 1500}, a \in {NoneF, Some(110000)},
             g \in {12000, 0}}

\* Nothing was read yet.
NoReading ==
    [sensor_type |-> None, t_raw |-> 0, rh_raw |-> 0, p_raw |-> NoneF,
     alt_m |-> NoneF, gas_ohms |-> NoneF]

\* _read_env_once(): the five values of one read, None for what the kind
\* does not have; the BME680 reads getattr(sensor, "altitude", 0.0).
read_env_once(d) ==
    [sensor_type |-> d.sensor_type,
     t_raw |-> d.temperature,
     rh_raw |-> d.humidity,
     p_raw |-> IF d.sensor_type = "SHT3x" THEN NoneF ELSE d.pressure,
     alt_m |-> IF d.sensor_type = "BME680"
               THEN (IF d.altitude = NoneF THEN Some(0) ELSE d.altitude)
               ELSE IF d.sensor_type = "BME280" THEN d.altitude
               ELSE NoneF,
     gas_ohms |-> IF d.sensor_type = "BME680" THEN <<d.gas[1], 1>> ELSE NoneF]

\* The windows of sample_gas_iaq: of the GasWindow reads of sensor.gas, lo
\* returned 14990 ohm, hi returned 15010 ohm and the others raised.
Windows ==
    {w \in [lo : 0 .. GasWindow, hi : 0 .. GasWindow] : w.lo + w.hi <= GasWindow}

NoWindow == [lo |-> 0, hi |-> 0]

\* sample_gas_iaq(): None when no read succeeded, else sum / len.
sample_gas_iaq(win) ==
    IF win.lo + win.hi = 0 THEN NoneF
    ELSE <<win.lo * 14990 + win.hi * 15010, win.lo + win.hi>>

\* Apply offsets & compute metrics: the variables of the payload.
FirstMetrics(c, gas_ohms, offsets) ==
    LET t_c == c.t_raw + offsets.temp
        rh == c.rh_raw + offsets.hum
        p_h == IF c.p_raw = NoneF THEN NoneF
               ELSE Some(c.p_raw[1] + offsets.press)
        p_for_calc == IF p_h # NoneF THEN p_h[1] ELSE SeaLevelHpa
        w == humidity_ratio(t_c, rh, p_for_calc)
    IN  [t_c |-> t_c, rh |-> rh, p_h |-> p_h,
         comp_gas |-> compute_comp_gas(gas_ohms, rh),
         temp_f |-> temp_f(t_c),
         dp_c |-> dewpoint_c(t_c, rh), dp_f |-> temp_f(dewpoint_c(t_c, rh)),
         wb_c |-> wetbulb_c(t_c, rh), wb_f |-> temp_f(wetbulb_c(t_c, rh)),
         w |-> w, h |-> enthalpy(t_c, w)]

\* Mutant: the re-apply leaves the humidity as it was.
ReapplyKeepsHumidity(c, m, offsets) ==
    [m EXCEPT !.t_c = c.t_raw + offsets.temp]

\* Re-apply offsets to current-cycle readings: the assignments in order, up
\* to the first that raises (p_raw + ... with p_raw None; dewpoint_c with a
\* corrected humidity <= 0). comp_gas is not among them.
Reapply(c, m, offsets) ==
    LET t_c == c.t_raw + offsets.temp
        rh == c.rh_raw + offsets.hum
        m1 == [m EXCEPT !.t_c = t_c, !.rh = rh]
    IN  IF c.p_raw = NoneF THEN m1
        ELSE LET p_h == c.p_raw[1] + offsets.press
                 m2 == [m1 EXCEPT !.p_h = Some(p_h), !.temp_f = temp_f(t_c)]
                 w == humidity_ratio(t_c, rh, p_h)
             IN  IF DewpointRaises(rh) THEN m2
                 ELSE [m2 EXCEPT !.dp_c = dewpoint_c(t_c, rh),
                                 !.dp_f = temp_f(dewpoint_c(t_c, rh)),
                                 !.wb_c = wetbulb_c(t_c, rh),
                                 !.wb_f = temp_f(wetbulb_c(t_c, rh)),
                                 !.w = w,
                                 !.h = enthalpy(t_c, w)]

\* Offsets a file may hold, locally or on GitHub.
OffsetChoices == {ZeroOffsets, Offsets(500, 0 - 2000, 300), Offsets(0, 0 - 2000, 0)}

\* /bme_offsets.json: missing, no JSON, or holding offsets.
LocalFiles ==
    {NoDoc("missing"), NoDoc("garbage")} \cup {FileOf(o) : o \in OffsetChoices}

\* What GitHub may answer: no JSON, an object with a field that is no
\* number, an object with the humidity offset alone, or offsets.
RemoteDocs ==
    {NoDoc("garbage"),
     JsonObject([k \in OffsetKeys |-> IF k = "press" THEN JsonBad ELSE JsonNum(500)]),
     JsonObject([k \in {"hum"} |-> JsonNum(0 - 2000)])}
    \cup {FileOf(o) : o \in OffsetChoices}

\* How the fallback fetch may go once it is attempted: the GET raises, or
\* it returns a body, and the write of the local file succeeds or raises.
FetchOutcomes ==
    {[got |-> "get_failed", doc |-> NoDoc("garbage"), saved |-> FALSE]}
    \cup {[got |-> "text", doc |-> d, saved |-> sv] :
              d \in RemoteDocs, sv \in BOOLEAN}

InitOffsets ==
    /\ run = 0
    /\ pc = "offsets"
    /\ cfg = NoCfg
    /\ sensor_type = None
    /\ usb = None
    /\ vbat = 0
    /\ bpct = 0
    /\ kicks = 0
    /\ prev = <<NoneF, NoneF>>
    /\ charging_state = None
    /\ mem = <<0, 0>>
    /\ rt = IdleFrame
    /\ log = <<>>
    /\ inf = NoInf
    /\ wdt = 0
    /\ fs = IdleProbe
    /\ \E d \in Devices, file \in LocalFiles, integrated \in BOOLEAN :
          calc = [st |-> "device", dev |-> d, raw |-> NoReading,
                  win |-> NoWindow, gas_ohms |-> NoneF, iaq |-> NoAqi,
                  file0 |-> file, file |-> file,
                  integrated |-> integrated, fetch |-> "none",
                  gh |-> ZeroOffsets, saved |-> FALSE,
                  offsets |-> ZeroOffsets, m |-> <<>>]

\* temp_c, rh, pressure_hpa, alt_m, gas_ohms = _read_env_once()
ReadEnv ==
    /\ pc = "offsets"
    /\ calc.st = "device"
    /\ calc' = [calc EXCEPT !.st = "read", !.raw = read_env_once(calc.dev)]
    /\ UNCHANGED <<run, pc, cfg, sensor_type, usb, vbat, bpct, kicks, prev,
                   charging_state, mem, rt, log, inf, wdt, fs>>

\* The BME680 samples its window and takes the average when there is one,
\* otherwise gas_ohms stays what the read returned; the index and label are
\* interpreted from gas_ohms for every kind.
GasAndAqi ==
    /\ pc = "offsets"
    /\ calc.st = "read"
    /\ \E win \in Windows :
          /\ calc.raw.sensor_type # "BME680" => win = NoWindow
          /\ LET gas_avg == sample_gas_iaq(win)
                 gas_ohms == IF calc.raw.sensor_type = "BME680" /\ gas_avg # NoneF
                             THEN gas_avg ELSE calc.raw.gas_ohms
             IN  calc' = [calc EXCEPT
                             !.st = "gas",
                             !.win = win,
                             !.gas_ohms = gas_ohms,
                             !.iaq = interpret_gas_resistance(gas_ohms)]
    /\ UNCHANGED <<run, pc, cfg, sensor_type, usb, vbat, bpct, kicks, prev,
                   charging_state, mem, rt, log, inf, wdt, fs>>

\* offsets = load_offsets() and the first computation of the metrics;
\* dewpoint_c raises out of the pipeline when the corrected humidity is <= 0.
ApplyOffsets ==
    /\ pc = "offsets"
    /\ calc.st = "gas"
    /\ LET offsets == load_offsets(calc.file)
       IN  calc' = [calc EXCEPT
                       !.offsets = offsets,
                       !.m = FirstMetrics(calc.raw, calc.gas_ohms, offsets),
                       !.st = IF DewpointRaises(calc.raw.rh_raw + offsets.hum)
                              THEN "except" ELSE "applied"]
    /\ UNCHANGED <<run, pc, cfg, sensor_type, usb, vbat, bpct, kicks, prev,
                   charging_state, mem, rt, log, inf, wdt, fs>>

\* _offsets_file_exists(): the name is in the listing of the root.
offsets_file_exists(file) == file.kind # "missing"

\* Mutant: the gate looks at the flag alone.
FetchGateFlagOnly(c) == c.integrated

\* The gate of the fallback fetch: INTEGRATED_SENSOR and no local file.
FetchGate(c) == c.integrated /\ ~offsets_file_exists(c.file)

\* The gate is closed: the remote fetch is not attempted.
FetchSkip ==
    /\ pc = "offsets"
    /\ calc.st = "applied"
    /\ ~FetchGate(calc)
    /\ calc' = [calc EXCEPT !.st = "fetched"]
    /\ UNCHANGED <<run, pc, cfg, sensor_type, usb, vbat, bpct, kicks, prev,
                   charging_state, mem, rt, log, inf, wdt, fs>>

\* The fallback fetch: GET, parse, offsets = gh_offsets, save, re-apply;
\* every failure is caught and printed, and the script goes on.
FetchFallback ==
    /\ pc = "offsets"
    /\ calc.st = "applied"
    /\ FetchGate(calc)
    /\ \E o \in FetchOutcomes :
          LET parsed == ParseOffsets(o.doc)
          IN  calc' = IF o.got = "get_failed"
                      THEN [calc EXCEPT !.st = "fetched", !.fetch = "get_failed"]
                      ELSE IF parsed = <<>>
                      THEN [calc EXCEPT !.st = "fetched", !.fetch = "parse_failed"]
                      ELSE [calc EXCEPT
                               !.st = "fetched",
                               !.fetch = "parsed",
                               !.gh = parsed[1],
                               !.saved = o.saved,
                               !.offsets = parsed[1],
                               !.file = IF o.saved THEN FileOf(parsed[1])
                                        ELSE calc.file,
                               !.m = Reapply(calc.raw, calc.m, parsed[1])]
    /\ UNCHANGED <<run, pc, cfg, sensor_type, usb, vbat, bpct, kicks, prev,
                   charging_state, mem, rt, log, inf, wdt, fs>>

\* int(gas_ohms)
IntOf(gas_ohms) == gas_ohms[1] \div gas_ohms[2]

\* The environment and calibration fields of the payload, the same for the
\* Adafruit IO feeds and for the Influx line; <<>> (None for the label) is
\* a field that is left out.
Payload(c) ==
    LET gas == c.gas_ohms # NoneF
        idx == gas /\ c.iaq.index # NoneF
    IN  [temperature_c |-> c.m.t_c, temperature_f |-> c.m.temp_f,
         dewpoint_c |-> c.m.dp_c, dewpoint_f |-> c.m.dp_f,
         wetbulb_c |-> c.m.wb_c, wetbulb_f |-> c.m.wb_f,
         humidity_pct |-> c.m.rh, humidity_ratio |-> c.m.w,
         enthalpy |-> c.m.h, pressure_hpa |-> c.m.p_h,
         altitude_m |-> IF c.m.p_h # NoneF THEN c.raw.alt_m ELSE NoneF,
         gas_ohms |-> IF gas THEN Some(IntOf(c.gas_ohms)) ELSE NoneF,
         gas_iaq_index |-> IF idx THEN c.iaq.index ELSE NoneF,
         gas_iaq_label |-> IF idx THEN c.iaq.label ELSE None,
         gas_iaq_comp |-> IF idx THEN c.m.comp_gas ELSE NoneF,
         offset_temp |-> c.offsets.temp, offset_hum |-> c.offsets.hum,
         offset_press |-> IF c.raw.p_raw # NoneF THEN Some(c.offsets.press)
                          ELSE NoneF,
         calibrated |-> calibrated_flag(c.offsets)]

\* The feeds / the fields are built from the variables as they stand.
BuildPayload ==
    /\ pc = "offsets"
    /\ calc.st = "fetched"
    /\ calc' = [calc EXCEPT !.st = "payload"]
    /\ UNCHANGED <<run, pc, cfg, sensor_type, usb, vbat, bpct, kicks, prev,
                   charging_state, mem, rt, log, inf, wdt, fs>>

NextOffsets ==
    ReadEnv \/ GasAndAqi \/ ApplyOffsets \/ FetchSkip \/ FetchFallback
    \/ BuildPayload

SpecOffsets == InitOffsets /\ [][NextOffsets]_vars

\* ------------------------------------------- the pure helpers on their own
\* One call of calibrated_flag, interpret_gas_resistance, humidity_ratio or
\* load_offsets: calc holds the function, its argument and, once applied,
\* its result.
\* es = 6.112 * exp(17.67 * T / (T + 243.5)) in units of 0.01 hPa, at the
\* temperatures of HrInputs.
SaturationVp(temp_c) ==
    CASE temp_c = 21500 -> 2563
      [] temp_c = 60000 -> 20104
      [] temp_c = 85000 -> 59135
      [] temp_c = 100000 -> 104771

\* pressure_hpa - e with e = (rh / 100.0) * es, in units of 10^-6 hPa: the
\* denominator of 0.62198 * e / (pressure_hpa - e).
HumidityRatioDenominator(temp_c, rh, pressure_hpa) ==
    pressure_hpa * 1000 - (rh \div 10) * SaturationVp(temp_c)

\* Offset records with any subset of the keys, around the 0.01 threshold.
FlagInputs ==
    UNION {[ks -> {0 - 20, 0 - 10, 0 - 5, 0, 5, 10, 20}] : ks \in SUBSET OffsetKeys}

\* The steps of the AQI scale, in ohms.
AqiSteps == {0, 1000, 3000, 8000, 15000}

\* Gas resistances around every step, None, and two averages between
\* integers.
AqiInputs ==
    {NoneF, <<29999, 2>>, <<30001, 2>>}
    \cup {<<s + k, 1>> : s \in AqiSteps, k \in (0 - 2) .. 2}

\* Temperatures, humidities and pressures inside the sensors' ranges.
HrInputs ==
    [temp_c : {21500, 60000, 85000, 100000}, rh : {40000, 100000},
     pressure_hpa : {300000, 1000000, SeaLevelHpa}]

\* /bme_offsets.json in every condition load_offsets may meet.
FileInputs ==
    {NoDoc(k) : k \in {"missing", "unreadable", "garbage", "array"}}
    \cup {JsonObject(d) : d \in JsonDicts({JsonNum(500), JsonNum(0 - 2000), JsonBad})}

HelperCall(fn, arg) == [st |-> "call", fn |-> fn, arg |-> arg, out |-> <<>>]

InitHelpers ==
    /\ run = 0
    /\ pc = "helpers"
    /\ cfg = NoCfg
    /\ sensor_type = None
    /\ usb = None
    /\ vbat = 0
    /\ bpct = 0
    /\ kicks = 0
    /\ prev = <<NoneF, NoneF>>
    /\ charging_state = None
    /\ mem = <<0, 0>>
    /\ rt = IdleFrame
    /\ log = <<>>
    /\ inf = NoInf
    /\ wdt = 0
    /\ fs = IdleProbe
    /\ \/ \E off \in FlagInputs : calc = HelperCall("calibrated_flag", off)
       \/ \E g \in AqiInputs : calc = HelperCall("interpret_gas_resistance", g)
       \/ \E a \in HrInputs : calc = HelperCall("humidity_ratio", a)
       \/ \E f \in FileInputs : calc = HelperCall("load_offsets", f)

ApplyCalibratedFlag ==
    /\ pc = "helpers"
    /\ calc.st = "call"
    /\ calc.fn = "calibrated_flag"
    /\ calc' = [calc EXCEPT !.st = "done", !.out = calibrated_flag(calc.arg)]
    /\ UNCHANGED <<run, pc, cfg, sensor_type, usb, vbat, bpct, kicks, prev,
                   charging_state, mem, rt, log, inf, wdt, fs>>

ApplyInterpretGas ==
    /\ pc = "helpers"
    /\ calc.st = "call"
    /\ calc.fn = "interpret_gas_resistance"
    /\ calc' = [calc EXCEPT !.st = "done",
                            !.out = interpret_gas_resistance(calc.arg)]
    /\ UNCHANGED <<run, pc, cfg, sensor_type, usb, vbat, bpct, kicks, prev,
                   charging_state, mem, rt, log, inf, wdt, fs>>

ApplyHumidityRatio ==
    /\ pc = "helpers"
    /\ calc.st = "call"
    /\ calc.fn = "humidity_ratio"
    /\ calc' = [calc EXCEPT
                   !.st = "done",
                   !.out = [w |-> humidity_ratio(calc.arg.temp_c, calc.arg.rh,
                                                 calc.arg.pressure_hpa),
                            denominator |->
                                HumidityRatioDenominator(calc.arg.temp_c,
                                    calc.arg.rh, calc.arg.pressure_hpa)]]
    /\ UNCHANGED <<run, pc, cfg, sensor_type, usb, vbat, bpct, kicks, prev,
                   charging_state, mem, rt, log, inf, wdt, fs>>

ApplyLoadOffsets ==
    /\ pc = "helpers"
    /\ calc.st = "call"
    /\ calc.fn = "load_offsets"
    /\ calc' = [calc EXCEPT !.st = "done", !.out = load_offsets(calc.arg)]
    /\ UNCHANGED <<run, pc, cfg, sensor_type, usb, vbat, bpct, kicks, prev,
                   charging_state, mem, rt, log, inf, wdt, fs>>

NextHelpers ==
    ApplyCalibratedFlag \/ ApplyInterpretGas \/ ApplyHumidityRatio
    \/ ApplyLoadOffsets

SpecHelpers == InitHelpers /\ [][NextHelpers]_vars

\* ================================================================== claims
\* The run is over: deep sleep, soft restart, or the failure surfaced.
RunEnded ==
    pc \in {"asleep", "reloaded", "raised", "ended", "wdt_reset", "crashed"}

\* The operation labelled l was invoked at least once in this run.
Attempted(l) ==
    \E i \in DOMAIN log :
        /\ log[i].label = l
        /\ log[i].ev \in {"call_ok", "call_fail", "returned", "raise"}

\* with_retry gave up on the operation labelled l in this run.
Exhausted(l) == \E i \in DOMAIN log : log[i].ev = "raise" /\ log[i].label = l

\* The writes of the trend record in this run, as positions of log.
MemWrites == {i \in DOMAIN log : log[i].ev = "mem_write"}

NetLabels == {"Wi-Fi connect", "Adafruit IO POST", "Influx write"}

\* C1: with both sinks enabled, one sink running out of retries never keeps
\* the other sink from being attempted in the same run, whichever sink fails.
C1_SinkIsolation ==
    (RunEnded /\ cfg.aio_enable /\ cfg.influx_enable) =>
        /\ Exhausted("Adafruit IO POST") => Attempted("Influx write")
        /\ Exhausted("Influx write") => Attempted("Adafruit IO POST")

\* C2: in every run that got as far as network bring-up, whatever became of
\* Wi-Fi and of each sink, the retained trend record holds the current
\* cycle's battery percent and voltage when the run ends (on a board that
\* has the retained memory).
C2_TrendPersisted ==
    (RunEnded /\ Attempted("Wi-Fi connect") /\ cfg.alarm_ok) =>
        mem = Pack(bpct, vbat)

\* C2 witness: the Adafruit IO POST ran out of retries, the run ended in a
\* soft restart, and the record holds this first run's reading.
C2_Witness ==
    /\ run = 1
    /\ pc = "reloaded"
    /\ cfg.alarm_ok
    /\ Exhausted("Adafruit IO POST")
    /\ mem = Pack(bpct, vbat)
    /\ mem # <<0, 0>>

\* C3 as stated: the trend record is written exactly once per run, as the
\* last step, after dispatch and never before network bring-up.
C3_Original ==
    /\ Cardinality(MemWrites) <= 1
    /\ \A i \in MemWrites :
          \E j \in 1..(i - 1) : log[j] = Returned("Wi-Fi connect")
    /\ pc = "asleep" => Cardinality(MemWrites) = 1

\* C3 amended: the trend record is written at most twice per run, both times
\* with the current cycle's battery reading: once right after the record was
\* read for charge inference, before any network bring-up, and once as the
\* last pipeline step, after Wi-Fi came up and every enabled sink was
\* attempted. A run that reaches deep sleep has made both writes.
C3_EarlyAndFinalWrite ==
    /\ Cardinality(MemWrites) <= 2
    /\ \A i \in MemWrites : \A j \in MemWrites :
          log[i].label = log[j].label => i = j
    /\ MemWrites # {} => mem = Pack(bpct, vbat)
    /\ \A i \in MemWrites : log[i].label = "early" =>
          /\ i > 1
          /\ log[i - 1] = MemRead
          /\ \A j \in 1..(i - 1) : log[j].label \notin NetLabels
    /\ \A i \in MemWrites : log[i].label = "final" =>
          /\ i = Len(log)
          /\ \E j \in 1..(i - 1) : log[j] = MemWrite("early")
          /\ \E j \in 1..(i - 1) : log[j] = Returned("Wi-Fi connect")
          /\ cfg.aio_enable =>
                \E j \in 1..(i - 1) : log[j] = Returned("Adafruit IO POST")
          /\ cfg.influx_enable =>
                \E j \in 1..(i - 1) :
                    /\ log[j].label = "Influx write"
                    /\ log[j].ev \in {"returned", "raise"}
    /\ (pc \in {"sleep", "asleep"} /\ cfg.alarm_ok) =>
          /\ Cardinality(MemWrites) = 2
          /\ log[Len(log)] = MemWrite("final")

\* C3 witness: both sinks enabled, the Influx write ran out of retries, and
\* the run is in deep sleep after its two writes.
C3_Witness ==
    /\ pc = "asleep"
    /\ cfg.aio_enable
    /\ Exhausted("Influx write")
    /\ Cardinality(MemWrites) = 2

\* Invocations of the wrapped operation that raised, in log.
FailedCalls(l) ==
    Cardinality({i \in DOMAIN log : log[i].ev = "call_fail" /\ log[i].label = l})

\* C4: with_retry never retries indefinitely. The operation is never invoked
\* more than tries times; once it has failed tries times the only step left
\* is the raise; and the raised failure follows exactly tries failed
\* invocations and carries the label and the attempt count.
C4_BoundedAttempts ==
    rt.st # "idle" =>
        /\ Calls(rt.label) <= rt.tries
        /\ (rt.st = "running" /\ FailedCalls(rt.label) = rt.tries) =>
              (ENABLED RetryExhaust /\ ~ENABLED RetryAttempt)
        /\ rt.st = "raised" =>
              /\ Calls(rt.label) = rt.tries
              /\ FailedCalls(rt.label) = rt.tries
              /\ rt.exc = <<rt.label, rt.tries>>

\* C4 witness: the default four tries all failed and the failure was raised.
C4_Witness ==
    /\ rt.st = "raised"
    /\ rt.tries = DefaultTries
    /\ FailedCalls(rt.label) = DefaultTries
    /\ rt.exc = <<rt.label, DefaultTries>>

\* C5: with_retry returns the first success. When it has returned, the last
\* thing it did is the one successful invocation, on attempt k <= tries after
\* k-1 failures; the value returned is that invocation's; nothing was raised
\* and no further invocation is possible.
C5_FirstSuccess ==
    rt.st = "returned" =>
        /\ log # <<>>
        /\ log[Len(log)].ev = "call_ok"
        /\ log[Len(log)].label = rt.label
        /\ log[Len(log)].n = Calls(rt.label)
        /\ Calls(rt.label) = FailedCalls(rt.label) + 1
        /\ Calls(rt.label) <= rt.tries
        /\ rt.result = log[Len(log)].val
        /\ rt.exc = <<>>
        /\ ~ENABLED RetryAttempt
        /\ ~ENABLED RetryExhaust

\* C5 witness: three failures, then success on the fourth of four tries.
C5_Witness ==
    /\ rt.st = "returned"
    /\ rt.tries = DefaultTries
    /\ FailedCalls(rt.label) = DefaultTries - 1
    /\ rt.result = "204"

\* C6: every invocation of the wrapped operation is immediately preceded by a
\* watchdog feed, with no sleep between the feed and the invocation, so there
\* are as many feeds as invocations.
C6_FeedBeforeAttempt ==
    /\ \A i \in DOMAIN log :
          IsCall(log[i]) => (i > 1 /\ log[i - 1] = Feed)
    /\ rt.st # "idle" =>
          Cardinality({i \in DOMAIN log : log[i] = Feed}) = Calls(rt.label)

\* C6 witness: four invocations were made and failed, each one fed first.
C6_Witness ==
    /\ rt.st = "running"
    /\ Calls(rt.label) = DefaultTries
    /\ Cardinality({i \in DOMAIN log : log[i].ev = "sleep"}) = DefaultTries
    /\ Cardinality({i \in DOMAIN log : log[i] = Feed}) = DefaultTries

\* The inputs of the explored infer_state call, as the rules state them.
InfApplied == inf.out # None

InfNearFull == inf.v * 100 >= 418 * VQ \/ inf.p >= 99 * PQ

InfRising ==
    \/ (inf.pp # NoneF /\ (inf.p - inf.pp[1]) * 10 > PQ)
    \/ (inf.pv # NoneF /\ (inf.v - inf.pv[1]) * 1000 > 8 * VQ)

ChargeStates == {"charged", "charging", "plugged", "discharging"}

\* C7 as stated: near full gives charged for every USB signal.
C7_Original == (InfApplied /\ InfNearFull) => inf.out = "charged"

\* C7 amended: near full (voltage >= 4.18 or percent >= 99.0) gives charged
\* when the USB signal is true or unknown, for every previous reading; when
\* USB is confirmed false the result is discharging.
C7_ChargedUnlessUsbFalse ==
    (InfApplied /\ InfNearFull) =>
        /\ inf.usb \in {PyTrue, None} => inf.out = "charged"
        /\ inf.usb = PyFalse => inf.out = "discharging"

\* C7 witness: charged by the percent alone, USB unknown, no previous reading.
C7_Witness ==
    /\ inf.out = "charged"
    /\ inf.usb = None
    /\ inf.p = 99 * PQ
    /\ inf.v * 100 < 418 * VQ
    /\ inf.pp = NoneF
    /\ inf.pv = NoneF

\* C8 as stated: a rise below near full gives charging for every USB signal.
C8_Original == (InfApplied /\ ~InfNearFull /\ InfRising) => inf.out = "charging"

\* C8 amended: below near full, a rise of the percent by more than 0.10 or of
\* the voltage by more than 8 mV gives charging when the USB signal is true
\* or unknown; when USB is confirmed false the result is discharging.
C8_ChargingUnlessUsbFalse ==
    (InfApplied /\ ~InfNearFull /\ InfRising) =>
        /\ inf.usb \in {PyTrue, None} => inf.out = "charging"
        /\ inf.usb = PyFalse => inf.out = "discharging"

\* C8 witness: charging by a voltage rise alone, USB unknown.
C8_Witness ==
    /\ inf.out = "charging"
    /\ inf.usb = None
    /\ inf.pv # NoneF
    /\ inf.pp # NoneF
    /\ inf.p <= inf.pp[1]

\* C9: plugged exactly when USB is confirmed true, the battery is not near
\* full and neither rising condition holds.
C9_PluggedIff ==
    InfApplied =>
        (inf.out = "plugged" <=> (inf.usb = PyTrue /\ ~InfNearFull /\ ~InfRising))

\* C9 witness: plugged with no previous reading at all.
C9_Witness ==
    /\ inf.out = "plugged"
    /\ inf.pp = NoneF
    /\ inf.pv = NoneF

\* C10 as stated: discharging exactly when none of rules 1-3 applies.
C10_Original ==
    InfApplied =>
        /\ inf.out \in ChargeStates
        /\ inf.out = "discharging" <=>
              (~InfNearFull /\ ~InfRising /\ inf.usb \in {PyFalse, None})

\* C10 amended: discharging exactly when USB is confirmed false, or USB is
\* unknown with the battery not near full and no rise; every input gives one
\* of the four states.
C10_DischargingIff ==
    InfApplied =>
        /\ inf.out \in ChargeStates
        /\ inf.out = "discharging" <=>
              \/ inf.usb = PyFalse
              \/ (inf.usb = None /\ ~InfNearFull /\ ~InfRising)

\* C10 witness: discharging with USB unknown and no previous reading.
C10_Witness ==
    /\ inf.out = "discharging"
    /\ inf.usb = None
    /\ inf.pp = NoneF
    /\ inf.pv = NoneF

\* C11: in the first run after power-up, before any run has written the
\* trend record, charge inference receives the previous percent and voltage
\* as unknown, and so never answers charging.
C11_AbsentTrendUnknown ==
    (run = 1 /\ charging_state # None) =>
        /\ prev = <<NoneF, NoneF>>
        /\ charging_state # "charging"

\* The payload is what one offset o gives on the raw readings, metric by
\* metric, and reports o.
PayloadFrom(c, o) ==
    LET t == c.raw.t_raw + o.temp
        r == c.raw.rh_raw + o.hum
        p == IF c.raw.p_raw = NoneF THEN NoneF ELSE Some(c.raw.p_raw[1] + o.press)
        pcal == IF p = NoneF THEN SeaLevelHpa ELSE p[1]
        w == humidity_ratio(t, r, pcal)
    IN  Payload(c) =
           [temperature_c |-> t, temperature_f |-> temp_f(t),
            dewpoint_c |-> dewpoint_c(t, r), dewpoint_f |-> temp_f(dewpoint_c(t, r)),
            wetbulb_c |-> wetbulb_c(t, r), wetbulb_f |-> temp_f(wetbulb_c(t, r)),
            humidity_pct |-> r, humidity_ratio |-> w,
            enthalpy |-> enthalpy(t, w), pressure_hpa |-> p,
            altitude_m |-> IF p # NoneF THEN c.raw.alt_m ELSE NoneF,
            gas_ohms |-> IF c.gas_ohms # NoneF THEN Some(IntOf(c.gas_ohms))
                         ELSE NoneF,
            gas_iaq_index |-> IF c.gas_ohms # NoneF THEN c.iaq.index ELSE NoneF,
            gas_iaq_label |-> IF c.gas_ohms # NoneF THEN c.iaq.label ELSE None,
            gas_iaq_comp |-> IF c.gas_ohms # NoneF /\ c.iaq.index # NoneF
                             THEN compute_comp_gas(c.gas_ohms, r) ELSE NoneF,
            offset_temp |-> o.temp, offset_hum |-> o.hum,
            offset_press |-> IF p # NoneF THEN Some(o.press) ELSE NoneF,
            calibrated |-> calibrated_flag(o)]

\* C12: every payload is computed, field by field, from one and the same
\* offset, the one it reports, for every sensor kind and every outcome of
\* the remote fallback fetch.
C12_NoMixedPayload ==
    calc.st = "payload" => PayloadFrom(calc, calc.offsets)

\* The top-level handler ran in this run, and what it read.
Handled == {i \in DOMAIN log : log[i].ev = "usb_connected"}

\* C13: an exception that escapes the pipeline body goes to the top-level
\* handler and nowhere else, and the handler has exactly two outcomes: with
\* no USB session attached the script is soft-restarted, with a session
\* attached the failure is raised again and nothing restarts the run. The
\* failed run takes no further pipeline step.
C13_TopLevelPolicy ==
    /\ pc = "except" =>
          /\ Handled = {}
          /\ ENABLED TopLevelExcept
          /\ ~ENABLED (Next /\ pc' \notin {"reloaded", "raised"})
    /\ Handled # {} =>
          /\ Handled = {Len(log)}
          /\ pc \in {"reloaded", "raised"}
          /\ log[Len(log)].val = PyFalse <=> pc = "reloaded"
          /\ log[Len(log)].val = PyTrue => pc = "raised"
    /\ pc = "raised" => ~ENABLED Next
    /\ pc = "reloaded" => ~ENABLED (Next /\ ~Wake)
    /\ pc \in {"reloaded", "raised"} => Handled # {}

\* C13 witness: Wi-Fi ran out of retries with no USB session attached, and
\* the first run was soft-restarted.
C13_Witness ==
    /\ run = 1
    /\ pc = "reloaded"
    /\ Exhausted("Wi-Fi connect")
    /\ log[Len(log)] = Handler(PyFalse)
    /\ ENABLED Wake

\* Positions of log where the network was used: Wi-Fi connect or a sink.
NetEvents == {i \in DOMAIN log : log[i].label \in NetLabels}

\* The reading of the detected sensor was obtained before position i of log.
ReadBefore(i) ==
    /\ sensor_type \in SensorKinds
    /\ \E j \in 1..(i - 1) : log[j] = Returned(ReadLabel(sensor_type))

\* C14: no Wi-Fi connect and no sink write is attempted in a run unless a
\* supported sensor was detected and its reading obtained earlier in that
\* same run.
C14_NoSensorNoTelemetry ==
    /\ \A i \in NetEvents : ReadBefore(i)
    /\ rt.label \in NetLabels => ReadBefore(Len(log) + 1)

\* C14 witness: the second run found an SHT3x, read it, and went on to
\* attempt both sinks.
C14_Witness ==
    /\ run = 2
    /\ sensor_type = "SHT3x"
    /\ Attempted("Adafruit IO POST")
    /\ Attempted("Influx write")
    /\ log[1] = Returned("SHT3x read")

\* C15: find_env_sensor makes at most tries bus scans and then returns
\* not-found; once the boot probe has spent its budget without a sensor the
\* run ends as a fatal failure, and no further probing is started.
C15_ProbingBounded ==
    /\ fs.scans <= fs.tries
    /\ fs.st = "not_found" => fs.scans = fs.tries
    /\ fs.st = "running" => pc = "boot_probe"
    /\ (pc = "main" /\ sensor_type = None) =>
          (ENABLED (Next /\ pc' = "except") /\ ~ENABLED WaitSensor)

\* The script is in the sensor wait loop, and no sensor has answered.
InWaitLoop == sensor_type = None /\ pc \in {"main", "wait_probe"}

\* C16: an execution that stays in a wait loop without progress eventually
\* goes unfed for longer than the watchdog timeout and is reset; no loop
\* spins forever while it keeps feeding the watchdog.
C16_WatchdogCeiling ==
    <>[]InWaitLoop => <>(wdt > WdtTimeout \/ pc = "wdt_reset")

\* The failure of a bus or network operation, as the run records it: the
\* give-up of with_retry, or an exception of the fuel gauge.
IoFailure(e) == e.ev = "raise" \/ (e.ev = "error" /\ e.label = "MAX17048")

\* C17: a failing bus or network operation is retried within the run, so a
\* failure of one reaches the top-level handler only as the give-up of
\* with_retry after all its tries, never after a single failed attempt.
C17_TransientRecovered ==
    (pc = "except" /\ IoFailure(log[Len(log)])) =>
        /\ log[Len(log)].ev = "raise"
        /\ log[Len(log)].n = DefaultTries

\* Before position w of log the sensor reading was returned, then the gas
\* averaging and metrics were done, then the fuel gauge was read.
ReadThenGaugeBefore(w) ==
    \E j \in 1..(w - 1) : \E k \in 1..(w - 1) : \E l \in 1..(w - 1) :
        /\ j < k
        /\ k < l
        /\ sensor_type \in SensorKinds
        /\ log[j] = Returned(ReadLabel(sensor_type))
        /\ log[k] = Metrics
        /\ log[l].ev = "fuel_gauge"

\* C18: in every run the environmental read, gas averaging included, is
\* complete before the first Wi-Fi connect, and the fuel gauge is read after
\* the environmental read and before Wi-Fi connect.
C18_ReadBeforeRadio ==
    /\ \A i \in NetEvents : ReadThenGaugeBefore(i)
    /\ rt.label \in NetLabels => ReadThenGaugeBefore(Len(log) + 1)
    /\ \A l \in DOMAIN log : log[l].ev = "fuel_gauge" =>
          /\ \E j \in 1..(l - 1) : log[j].ev = "returned"
          /\ \A i \in NetEvents : l < i

\* C18 witness: a BME680 was read and gas-averaged, the gauge was read, and
\* Wi-Fi connect has been tried once and failed.
C18_Witness ==
    /\ sensor_type = "BME680"
    /\ pc = "wifi"
    /\ Len(log) >= 3
    /\ log[1] = Returned("BME680 read")
    /\ log[2] = Metrics
    /\ log[3].ev = "fuel_gauge"
    /\ FailedCalls("Wi-Fi connect") = 1

\* Rank of a sensor kind in the probe order, the gas-capable kind first.
Priority(kind) ==
    CASE kind = "BME680" -> 1
      [] kind = "BME280" -> 2
      [] kind = "SHT3x" -> 3

\* The addresses at which a kind is looked for.
KindAddresses(kind) == IF kind = "SHT3x" THEN {68, 69} ELSE {118, 119}

\* The kinds whose driver constructs at a candidate address of the scan.
Constructible(bus) ==
    {k \in SensorKinds :
        \E a \in KindAddresses(k) \cap bus.seen : <<k, a>> \in bus.ok}

\* C19: a bus scan of find_env_sensor selects the highest-priority kind that
\* constructs at a scanned candidate address, in the order BME680, BME280,
\* SHT3x, and none only when no kind does; where a pressure-capable and a
\* humidity-only sensor both answer, the pressure-capable one is selected;
\* no constructor is called at an address absent from the scan.
C19_ProbePriority ==
    fs.scans > 0 =>
        /\ fs.kind = None <=> Constructible(fs.bus) = {}
        /\ fs.kind # None =>
              /\ fs.st = "found"
              /\ fs.kind \in Constructible(fs.bus)
              /\ \A k \in Constructible(fs.bus) : Priority(fs.kind) <= Priority(k)
        /\ ("SHT3x" \in Constructible(fs.bus) /\ Constructible(fs.bus) # {"SHT3x"})
              => fs.kind \in {"BME680", "BME280"}
        /\ \A i \in DOMAIN fs.made : fs.made[i][2] \in fs.bus.seen

\* C19 witness: a BME280 at 0x76 and an SHT3x at 0x44 both answer the scan
\* (and the fuel gauge at 0x36); the BME680 driver was tried at 0x76 and
\* failed, and the BME280 was selected.
C19_Witness ==
    /\ fs.st = "found"
    /\ fs.kind = "BME280"
    /\ fs.bus.seen = {54, 68, 118}
    /\ fs.made = << <<"BME680", 118>>, <<"BME280", 118>> >>

\* The fuel gauge reads of this run, as positions of log.
GaugeReads == {l \in DOMAIN log : log[l].ev = "fuel_gauge"}

\* C20: the quick-start correction is applied at most once per run, and
\* only when the first averaged percent is below -0.5 or above 101.5; the
\* gauge is then re-read once and the run goes on to the clamp and to charge
\* inference, whether the re-read is still out of band or the correction
\* failed: the percent the run carries is within 0..100 either way.
C20_QuickStartOnce ==
    /\ kicks <= 1
    /\ Cardinality(GaugeReads) <= 1
    /\ GaugeReads = {} => kicks = 0
    /\ \A l \in GaugeReads :
          /\ kicks = 1 => (2 * log[l].n > 203 * PQ \/ 2 * log[l].n < 0 - PQ)
          /\ kicks = 0 => bpct = Clamp(log[l].n)
          /\ bpct >= 0
          /\ bpct <= 100 * PQ
          /\ l = Len(log) => pc \in {"charge", "wifi"}

\* C20 witness: the first average was 103 %, the gauge was kicked once, the
\* percent is still at the rail after it, and the run is at charge
\* inference.
C20_Witness ==
    /\ pc = "charge"
    /\ kicks = 1
    /\ log[Len(log)] = FuelGauge(103 * PQ)
    /\ bpct = 100 * PQ

\* C21: whatever the gauge reports and however the quick-start correction
\* goes, the battery percent used for charge inference, put into a sink
\* payload and written to the trend record is within 0..100: a first average
\* above 100 that is not corrected gives 100, one below 0 gives 0.
C21_PercentClamped ==
    /\ bpct >= 0
    /\ bpct <= 100 * PQ
    /\ \A l \in GaugeReads :
          /\ (kicks = 0 /\ log[l].n > 100 * PQ) => bpct = 100 * PQ
          /\ (kicks = 0 /\ log[l].n < 0) => bpct = 0
    /\ \A i \in DOMAIN log : log[i].ev = "payload" =>
          (log[i].n = bpct /\ GaugeReads # {})
    /\ MemWrites # {} => (mem[1] = F32(bpct) /\ mem[1] >= 0 /\ mem[1] <= 100 * PQ)

\* C21 witness: the first average was 101.5 %, inside the band that is left
\* uncorrected, and 100 % went into the Influx payload and the trend record.
C21_Witness ==
    /\ kicks = 0
    /\ \E l \in GaugeReads : 2 * log[l].n = 203 * PQ
    /\ \E i \in DOMAIN log : log[i] = PayloadBuilt("Influx write", 100 * PQ)
    /\ MemWrites # {}
    /\ mem[1] = 100 * PQ

\* C22: on the gas-capable kind the gas value that is reported is the
\* average of the window sampled after the initial read, and the AQI index
\* and label are interpreted from that average, whatever reads of the
\* window fail.
C22_AqiFromWindowAverage ==
    (calc.dev.sensor_type = "BME680" /\ calc.st \notin {"device", "read"}) =>
        /\ calc.gas_ohms = sample_gas_iaq(calc.win)
        /\ calc.iaq = interpret_gas_resistance(sample_gas_iaq(calc.win))

\* The capabilities a kind may lack.
Capabilities == {"humidity", "pressure", "altitude", "gas"}

\* The sensor object of d has the capability.
Exposes(d, cap) ==
    CASE cap = "humidity" -> TRUE
      [] cap = "pressure" -> d.pressure # NoneF
      [] cap = "altitude" -> d.altitude # NoneF
      [] cap = "gas" -> d.gas # NoneF

\* What the reading carries for the capability.
ReadingOf(c, cap) ==
    CASE cap = "humidity" -> Some(c.raw.rh_raw)
      [] cap = "pressure" -> c.raw.p_raw
      [] cap = "altitude" -> c.raw.alt_m
      [] cap = "gas" -> c.gas_ohms

\* What the payload carries for the capability.
PayloadFieldOf(c, cap) ==
    CASE cap = "humidity" -> Some(Payload(c).humidity_pct)
      [] cap = "pressure" -> Payload(c).pressure_hpa
      [] cap = "altitude" -> Payload(c).altitude_m
      [] cap = "gas" -> Payload(c).gas_ohms

\* C23: for every sensor kind, a capability the active sensor does not
\* expose is None in the reading and its field is left out of the payload.
C23_AbsentIsNone ==
    \A cap \in Capabilities :
        (calc.st # "device" /\ ~Exposes(calc.dev, cap)) =>
            /\ ReadingOf(calc, cap) = NoneF
            /\ calc.st = "payload" => PayloadFieldOf(calc, cap) = NoneF

\* The fetched offsets are the run's offsets and the three readings carry
\* them.
FetchedInEffect(c) ==
    /\ c.offsets = c.gh
    /\ c.m.t_c = c.raw.t_raw + c.gh.temp
    /\ c.m.rh = c.raw.rh_raw + c.gh.hum
    /\ c.m.p_h = (IF c.raw.p_raw = NoneF THEN NoneF
                  ELSE Some(c.raw.p_raw[1] + c.gh.press))
    /\ c.st = "payload" =>
          /\ Payload(c).offset_temp = c.gh.temp
          /\ Payload(c).offset_hum = c.gh.hum
          /\ Payload(c).temperature_c = c.raw.t_raw + c.gh.temp
          /\ Payload(c).humidity_pct = c.raw.rh_raw + c.gh.hum

\* The remote source was contacted only with the flag set and no local file.
FetchGated(c) ==
    c.fetch # "none" => (c.integrated /\ c.file0.kind = "missing")

\* A failed fetch or parse leaves the loaded offsets and the file alone.
FetchFailureKeeps(c) ==
    c.fetch \in {"get_failed", "parse_failed"} =>
        (c.offsets = load_offsets(c.file0) /\ c.file = c.file0)

\* C25 as stated: the remote source is contacted only with the flag set and
\* the local file absent; after a successful fetch and parse the fetched
\* offsets are in the local file and in effect on the readings; after a
\* failed fetch or parse the loaded offsets are unchanged.
C25_RemoteFetch ==
    /\ FetchGated(calc)
    /\ calc.fetch = "parsed" =>
          (calc.file = FileOf(calc.gh) /\ FetchedInEffect(calc))
    /\ FetchFailureKeeps(calc)

\* C25 amended: as C25, but the write of the local file is attempted and
\* may fail; the file then stays absent while the fetched offsets are in
\* effect for the run.
C25_RemoteFetchSaveAttempted ==
    /\ FetchGated(calc)
    /\ calc.fetch = "parsed" =>
          /\ calc.file = (IF calc.saved THEN FileOf(calc.gh) ELSE calc.file0)
          /\ FetchedInEffect(calc)
    /\ FetchFailureKeeps(calc)

\* C25 witness: the fetch parsed, the write failed, and the payload reports
\* the fetched offsets while the local file is still missing.
C25_Witness ==
    /\ calc.st = "payload"
    /\ calc.fetch = "parsed"
    /\ ~calc.saved
    /\ calc.file.kind = "missing"
    /\ calc.offsets = Offsets(500, 0 - 2000, 300)
    /\ Payload(calc).calibrated = 1

\* The gas value after the window: its average, or the read's value when no
\* sample of the window was read.
GasAfterWindow(c) ==
    IF c.raw.sensor_type = "BME680" /\ sample_gas_iaq(c.win) # NoneF
    THEN sample_gas_iaq(c.win) ELSE c.raw.gas_ohms

\* C26: in every payload-bound state the corrected temperature is raw plus
\* offsets.temp, the corrected humidity raw plus offsets.hum, the corrected
\* pressure raw plus offsets.press when a pressure was read and absent
\* otherwise; altitude and gas resistance are what was read, whatever the
\* offsets.
C26_ComponentWise ==
    calc.st \in {"applied", "fetched", "payload"} =>
        /\ calc.m.t_c = calc.raw.t_raw + calc.offsets.temp
        /\ calc.m.rh = calc.raw.rh_raw + calc.offsets.hum
        /\ calc.m.p_h = (IF calc.raw.p_raw = NoneF THEN NoneF
                         ELSE Some(calc.raw.p_raw[1] + calc.offsets.press))
        /\ calc.raw.alt_m = read_env_once(calc.dev).alt_m
        /\ calc.gas_ohms = GasAfterWindow(calc)
        /\ calc.st = "payload" =>
              /\ Payload(calc).altitude_m \in {NoneF, read_env_once(calc.dev).alt_m}
              /\ Payload(calc).gas_ohms =
                    (IF GasAfterWindow(calc) = NoneF THEN NoneF
                     ELSE Some(IntOf(GasAfterWindow(calc))))

\* C26 witness: a sensor without pressure got fetched offsets re-applied:
\* the humidity moved by the fetched offset and the pressure is still absent.
C26_Witness ==
    /\ calc.st = "payload"
    /\ calc.fetch = "parsed"
    /\ calc.offsets = Offsets(0, 0 - 2000, 0)
    /\ calc.raw.p_raw = NoneF
    /\ calc.m.rh = 38000
    /\ calc.m.p_h = NoneF

\* C30: comp_gas exists only with a gas resistance that is present and
\* positive; on a sensor without gas capability the index, the label and
\* comp_gas are None and the payload has no gas, index, label or comp field.
C30_GasMetricsOnlyWithGas ==
    calc.st \in {"applied", "fetched", "payload"} =>
        /\ calc.m.comp_gas # NoneF =>
              (calc.gas_ohms # NoneF /\ calc.gas_ohms[1] > 0)
        /\ calc.dev.gas = NoneF =>
              /\ calc.iaq = NoAqi
              /\ calc.m.comp_gas = NoneF
              /\ calc.st = "payload" =>
                    /\ Payload(calc).gas_ohms = NoneF
                    /\ Payload(calc).gas_iaq_index = NoneF
                    /\ Payload(calc).gas_iaq_label = None
                    /\ Payload(calc).gas_iaq_comp = NoneF

\* C30 witness: a BME280 payload without gas fields, fetched offsets in
\* effect.
C30_Witness ==
    /\ calc.st = "payload"
    /\ calc.dev.sensor_type = "BME280"
    /\ calc.fetch = "parsed"
    /\ Payload(calc).gas_ohms = NoneF
    /\ Payload(calc).gas_iaq_comp = NoneF
    /\ Payload(calc).pressure_hpa # NoneF

\* The helper fn was applied.
Applied(fn) == calc.st = "done" /\ calc.fn = fn

\* C24: load_offsets always returns a record of the three offsets: the
\* zero record when the file is missing, unreadable, no JSON object or
\* holds a field that is no number, and otherwise every value of the file,
\* a missing key reading as 0.0; never some values of the file next to
\* fields zeroed by an error.
C24_LoadOffsetsAllOrNothing ==
    Applied("load_offsets") =>
        LET f == calc.arg
            bad == \/ f.kind # "object"
                   \/ \E k \in DOMAIN f.d : f.d[k][1] # "number"
        IN  /\ DOMAIN calc.out = OffsetKeys
            /\ bad => calc.out = ZeroOffsets
            /\ ~bad => \A k \in OffsetKeys :
                  calc.out[k] = (IF k \in DOMAIN f.d THEN f.d[k][2] ELSE 0)

\* C24 witness: the file holds a valid temp next to a press that is no
\* number, and the zero record was returned.
C24_Witness ==
    /\ Applied("load_offsets")
    /\ calc.arg.kind = "object"
    /\ DOMAIN calc.arg.d = {"temp", "press"}
    /\ calc.arg.d["temp"] = JsonNum(500)
    /\ calc.arg.d["press"] = JsonBad
    /\ calc.out = ZeroOffsets

AqiLabel(i) ==
    CASE i = 5 -> "very clean"
      [] i = 4 -> "clean"
      [] i = 3 -> "light VOCs"
      [] i = 2 -> "moderate VOCs"
      [] i = 1 -> "high VOCs"

C29_DenominatorClamped ==
    Applied("humidity_ratio") => calc.out.denominator >= 100000

\* C31: in with_retry every sleep follows a failed attempt and lasts
\* base_delay * 2^(k-1) after the k-th one, so the first lasts base_delay;
\* every failed attempt is followed by its sleep, and nothing is slept
\* after an attempt that succeeded.
C31_ExponentialBackoff ==
    /\ \A i \in DOMAIN log : log[i].ev = "sleep" =>
          /\ i > 1
          /\ log[i - 1].ev = "call_fail"
          /\ log[i].n = rt.base * 2 ^ (log[i - 1].n - 1)
    /\ \A i \in DOMAIN log : log[i].ev = "call_fail" =>
          (i < Len(log) /\ log[i + 1].ev = "sleep")
    /\ \A i \in DOMAIN log : log[i].ev = "call_ok" => i = Len(log)

\* C31 witness: four failures with the defaults slept 0.5, 1, 2 and 4 s.
C31_Witness ==
    /\ rt.st = "raised"
    /\ rt.tries = DefaultTries
    /\ rt.base = DefaultBaseDelay
    /\ SelectSeq(log, LAMBDA e : e.ev = "sleep")
         = <<Sleep(500), Sleep(1000), Sleep(2000), Sleep(4000)>>

\* C32: the trend record changes only by a write of the run's own (percent,
\* voltage) pair, in that order, after its battery read; a run without a
\* battery read, and the wake-up between two runs, leave it as it is; and
\* the previous pair a run loads is the record as the last write left it,
\* percent first and voltage second.
C32_TrendRoundTrip ==
    [][ /\ mem' # mem =>
              /\ GaugeReads # {}
              /\ mem'[1] = F32(bpct)
              /\ mem'[2] = F32(vbat)
        /\ (GaugeReads = {} \/ run' # run) => mem' = mem
        /\ (prev' # prev /\ prev' # <<NoneF, NoneF>>) =>
              /\ prev'[1] = Some(mem[1])
              /\ prev'[2] = Some(mem[2])
      ]_vars

\* C32 witness: the second run loaded 100 % and 4.25 V, the pair the first
\* run wrote, and has another pair of its own.
C32_Witness ==
    /\ run = 2
    /\ prev = <<Some(100 * PQ), Some(17 * (VQ \div 4))>>
    /\ bpct = 0
    /\ vbat = 15 * (VQ \div 4)
    /\ mem = <<0, 15 * (VQ \div 4)>>

SinkLabels == {"Adafruit IO POST", "Influx write"}

\* The sink with this label is enabled in the settings.
SinkEnabled(l) == IF l = "Adafruit IO POST" THEN cfg.aio_enable ELSE cfg.influx_enable

\* Wi-Fi came up in this run: the sinks are dispatched next.
DispatchReached == \E i \in DOMAIN log : log[i] = Returned("Wi-Fi connect")

\* C33: a run with the sensor read and Wi-Fi up in which an enabled sink
\* failed on every attempt does not end in a soft restart: it goes on to
\* deep sleep, so a dead sink cannot keep the device restarting.
C33_DeadSinkStillSleeps ==
    (DispatchReached /\ \E l \in SinkLabels : SinkEnabled(l) /\ Exhausted(l))
        => pc # "reloaded"

\* The positions of log with an attempt of the sink l or its outcome.
SinkCalls(l) == {i \in DOMAIN log : IsCall(log[i]) /\ log[i].label = l}

SinkSuccesses(l) ==
    {i \in DOMAIN log : log[i].label = l /\ log[i].ev \in {"call_ok", "returned"}}

SinkDispatches(l) == {i \in DOMAIN log : log[i].ev = "payload" /\ log[i].label = l}

\* Each sink is dispatched at most once in a run, with at most tries
\* attempts and at most one success, and a disabled sink not at all.
SinkCountsBounded ==
    \A l \in SinkLabels :
        /\ Cardinality(SinkDispatches(l)) <= 1
        /\ Cardinality(SinkCalls(l)) <= DefaultTries
        /\ Cardinality(SinkSuccesses(l)) <= 1
        /\ SinkCalls(l) # {} => (rt.label = l /\ SinkDispatches(l) # {})
        /\ ~SinkEnabled(l) => \A i \in DOMAIN log : log[i].label # l

\* C34: in one run each enabled sink gets at most one successful write and
\* at most tries attempts, a disabled sink gets none, and whether a sink is
\* attempted does not depend on the other sink: once the sinks are
\* dispatched, an enabled sink is attempted in every run that ends, as it is
\* when the other sink is disabled.
C34_DeliveryCount ==
    /\ SinkCountsBounded
    /\ \A l \in SinkLabels :
          (RunEnded /\ DispatchReached /\ SinkEnabled(l)) => Attempted(l)

\* C35: between arming the watchdog and deep sleep or the soft restart the
\* time slept since the last feed stays under the watchdog timeout,
\* including the sleep that precedes the feed of the sensor wait loop and
\* of the first gas sample. The fallback sleep of a board without deep
\* sleep is not on such a path.
C35_SleepBudget ==
    pc \notin {"fallback", "wdt_reset", "ended"} =>
        /\ wdt < WdtTimeout
        /\ (pc = "wait_probe" /\ fs.st = "not_found") =>
              wdt + RetrySleepMs < WdtTimeout
        /\ (pc = "metrics" /\ sensor_type = "BME680") =>
              wdt + 1000 < WdtTimeout

\* C35 witness: the Adafruit IO POST failed four times, the handler slept
\* its 2 s and reloaded: 6 s since the last feed.
C35_Witness ==
    /\ pc = "reloaded"
    /\ Exhausted("Adafruit IO POST")
    /\ wdt = 6000

\* C36: in find_env_sensor the bus lock is held only around the scan. It is
\* taken by a step of the running probe that does nothing else, the step
\* after it is the scan, and the scan gives it back whether it returns or
\* raises; so the constructors of a pass run without the lock, and the lock
\* is free when find_env_sensor returns or raises and between two scans.
C36_BusLockDiscipline ==
    [][ /\ fs'.locked =>
              /\ ~fs.locked
              /\ fs.st = "running" /\ fs'.st = "running"
              /\ fs'.scans = fs.scans /\ fs'.made = fs.made
        /\ fs.locked => (~fs'.locked /\ fs'.scans = fs.scans + 1)
        /\ (fs'.scans # fs.scans /\ fs'.made # <<>>) => ~fs'.locked
        /\ fs'.st \in {"idle", "found", "not_found", "raised"} => ~fs'.locked
      ]_vars

\* The second scan of the boot probe raised, after a first pass that found
\* nothing to construct: the lock was taken twice and is free.
C36_Witness ==
    /\ pc = "boot_probe"
    /\ fs.st = "raised"
    /\ fs.scans = 2
    /\ fs.attempt = 2
    /\ ~fs.locked

====
